---- MODULE Spec2Model ----
(***************************************************************************)
(* WorldSeedr: random, recursive generation of possibilities from          *)
(* position and probability schemas.  The generator is single-threaded and *)
(* synchronous; it is modelled as a call-stack machine in which every      *)
(* iteration of a mode generator's loop and every iteration of             *)
(* generateFull's loop is one step.  Numbers are integers; a value r of    *)
(* the injected random function is written r = k / RandDen.                *)
(***************************************************************************)
EXTENDS Integers, Sequences, FiniteSets, TLC

VARIABLES
    possibilities,      \* this.possibilities: title -> schema
    generatedCommands,  \* this.generatedCommands
    placed,             \* what onPlacement has been given, each with the call before it
    stack,              \* the call stack of the generation in progress, top last
    trail,              \* for each element of generatedCommands: the call and the path of child indices that pushed it
    last,               \* what the most recent generate / generateFull call was and how it ended
    calls,              \* number of generate / generateFull calls made by the user
    probe               \* a call of one of the helper functions on its own: what it was given and what it gave

vars == <<possibilities, generatedCommands, placed, stack, trail, last, calls, probe>>

(***************************************************************************)
(* Bounds of the model.                                                    *)
(***************************************************************************)
MaxCalls == 2       \* user calls of generate / generateFull in one behaviour
MaxChildren == 4    \* children one Repeat / Random loop may accumulate
MaxDepth == 5       \* frames on the call stack
MaxRuns == 1        \* runGeneratedCommands calls in one behaviour
RandDen == 100      \* random() returns k / RandDen

\* The numerators k of the values the injected random function may return.
RandValues == {39, 99}

\* Most draws of random() one step of the machine makes.
DrawsPerStep == 4

(***************************************************************************)
(* Small helpers.                                                          *)
(***************************************************************************)
Max(a, b) == IF a >= b THEN a ELSE b

Min(a, b) == IF a <= b THEN a ELSE b

\* Math.floor(a / b) for b > 0
Floor(a, b) == a \div b

Some(x) == <<x>>

None == <<>>

IsSome(o) == Len(o) > 0

(***************************************************************************)
(* Directions.                                                             *)
(***************************************************************************)
directionNames == {"top", "right", "bottom", "left"}

\* "" stands for an undefined direction
NoDirection == ""

directionOpposites(d) ==
    CASE d = "top" -> "bottom"
      [] d = "right" -> "left"
      [] d = "bottom" -> "top"
      [] d = "left" -> "right"

directionSizing(d) ==
    CASE d = "top" -> "height"
      [] d = "right" -> "width"
      [] d = "bottom" -> "height"
      [] d = "left" -> "width"

(***************************************************************************)
(* Errors.  "" is no error.                                                *)
(***************************************************************************)
NoError == ""

ErrNoPossibility == "Error: No possibility exists under name"

ErrNoOutcomes == "Error: Possibility has no possibile outcomes"

ErrUnknownChildType == "Error: Unknown child type"

ErrUnknownMode == "Error: Unknown contents mode"

ErrUnknownDirection == "Error: Unknown direction"

ErrTypeError == "TypeError"

(***************************************************************************)
(* The random source.  A step is given the values rs the next calls of     *)
(* random() return; u counts the calls made so far in the step.            *)
(***************************************************************************)
\* Math.floor(this.random() * 100) + 1
randomPercentage(k) == Floor(k * 100, RandDen) + 1

\* Math.floor(this.random() * (1 + max - min)) + min
randomBetween(k, min, max) == Floor(k * (1 + max - min), RandDen) + min

(***************************************************************************)
(* chooseAmong: the index (1-based) of the chosen element of a list of     *)
(* percents, 0 for undefined; and the number of draws it makes.            *)
(***************************************************************************)
\* A walk that stops only once the sum has passed the goal.
RECURSIVE chooseWalkPast(_, _, _, _)
chooseWalkPast(percents, goal, i, sum) ==
    IF i > Len(percents) THEN 0
    ELSE IF sum + percents[i] > goal THEN i
    ELSE chooseWalkPast(percents, goal, i + 1, sum + percents[i])

RECURSIVE chooseWalk(_, _, _, _)
chooseWalk(percents, goal, i, sum) ==
    IF i > Len(percents) THEN 0
    ELSE IF sum + percents[i] >= goal THEN i
    ELSE chooseWalk(percents, goal, i + 1, sum + percents[i])

chooseAmongDraws(percents) == IF Len(percents) <= 1 THEN 0 ELSE 1

\* A chooseAmong that walks a list of one like any other.
chooseAmongAlwaysWalk(percents, goal) == chooseWalk(percents, goal, 1, 0)

\* chooseAmong once randomPercentage() has given goal
chooseAmongGoal(percents, goal) ==
    IF Len(percents) = 0 THEN 0
    ELSE IF Len(percents) = 1 THEN 1
    ELSE chooseWalk(percents, goal, 1, 0)

chooseAmong(percents, k) == chooseAmongGoal(percents, randomPercentage(k))

(***************************************************************************)
(* Fit predicates and emptiness.                                           *)
(***************************************************************************)
choiceFitsSize(choice, width, height) ==
    choice.width <= width /\ choice.height <= height

choiceFitsPosition(choice, position) ==
    choiceFitsSize(choice, position.right - position.left,
                   position.top - position.bottom)

positionIsNotEmpty(position, direction) ==
    IF direction = "right" \/ direction = "left"
    THEN position.left < position.right
    ELSE position.top > position.bottom

(***************************************************************************)
(* Spacing descriptions.  kind is "number", "array" ([min, max]),          *)
(* "object" ({min, max, units?}; units = 0 stands for no units),           *)
(* "weighted" (a list of {value, percent}) or "other" (anything else).     *)
(***************************************************************************)
SpacingNumber(n) ==
    [kind |-> "number", n |-> n, min |-> 0, max |-> 0, units |-> 0, options |-> <<>>]

SpacingArray(min, max) ==
    [kind |-> "array", n |-> 0, min |-> min, max |-> max, units |-> 0, options |-> <<>>]

SpacingObject(min, max, units) ==
    [kind |-> "object", n |-> 0, min |-> min, max |-> max, units |-> units, options |-> <<>>]

SpacingWeighted(options) ==
    [kind |-> "weighted", n |-> 0, min |-> 0, max |-> 0, units |-> 0, options |-> options]

SpacingOther ==
    [kind |-> "other", n |-> 0, min |-> 0, max |-> 0, units |-> 0, options |-> <<>>]

SpacingOption(percent, value) == [percent |-> percent, value |-> value]

\* What a spacing computation gives: a number (nan when it is no number),
\* the count u of draws made so far, and the error thrown, if any.
SpacingResult(val, u, err, nan) == [val |-> val, u |-> u, err |-> err, nan |-> nan]

\* randomBetween(min / units, max / units) * units, for the draw k
parseSpacingRange(k, min, max, units) ==
    LET un == IF units = 0 THEN 1 ELSE units
    IN  un * Floor(k * (un + max - min), RandDen * un) + min

parseSpacingObject(spacing, rs, u) ==
    CASE spacing.kind = "number" -> SpacingResult(spacing.n, u, NoError, FALSE)
      [] spacing.kind = "object" ->
            SpacingResult(parseSpacingRange(rs[u + 1], spacing.min, spacing.max, spacing.units),
                          u + 1, NoError, FALSE)
      [] OTHER -> SpacingResult(0, u + 1, NoError, TRUE)

parseSpacing(spacing, rs, u) ==
    CASE spacing.kind = "number" -> SpacingResult(spacing.n, u, NoError, FALSE)
      [] spacing.kind = "array" ->
            SpacingResult(randomBetween(rs[u + 1], spacing.min, spacing.max), u + 1, NoError, FALSE)
      [] spacing.kind = "weighted" ->
            LET percents == [j \in 1..Len(spacing.options) |-> spacing.options[j].percent]
                Chosen(j, u1) ==
                    IF j = 0 THEN SpacingResult(0, u1, ErrTypeError, FALSE)
                    ELSE parseSpacingObject(spacing.options[j].value, rs, u1)
            IN  Chosen(chooseAmong(percents, rs[u + 1]), u + chooseAmongDraws(percents))
      [] spacing.kind = "object" -> parseSpacingObject(spacing, rs, u)
      [] OTHER -> SpacingResult(0, u, NoError, TRUE)

(***************************************************************************)
(* Positions, arguments and choices.                                       *)
(***************************************************************************)
Position(top, right, bottom, left) ==
    [top |-> top, right |-> right, bottom |-> bottom, left |-> left]

PositionOf(o) == Position(o.top, o.right, o.bottom, o.left)

\* An arguments object: the keys width and height when set, and a tag
\* standing for its other keys.
ArgumentsMap(width, height, tag) == [height |-> height, tag |-> tag, width |-> width]

EmptyMap == ArgumentsMap(None, None, "")

\* A choice's arguments: undefined ("none"), an object of its own ("own"),
\* or the very object found in the library ("alias") under schema name,
\* child i, and option j of a weighted list (j = 0: the arguments itself).
NoPath == [i |-> 0, j |-> 0, name |-> ""]

ArgumentsNone == [kind |-> "none", map |-> EmptyMap, path |-> NoPath]

ArgumentsOwn(map) == [kind |-> "own", map |-> map, path |-> NoPath]

ArgumentsAlias(name, i, j) ==
    [kind |-> "alias", map |-> EmptyMap, path |-> [i |-> i, j |-> j, name |-> name]]

\* The object an alias stands for, as the library holds it now.
DerefArguments(lib, args) ==
    IF args.kind # "alias" THEN args.map
    ELSE LET a == lib[args.path.name].contents.children[args.path.i].arguments
         IN  IF args.path.j = 0 THEN a.map ELSE a.options[args.path.j].values

\* The library after obj[key] = value on the object args stands for.
WriteArguments(lib, args, key, value) ==
    IF args.kind # "alias" THEN lib
    ELSE IF args.path.j = 0
    THEN [lib EXCEPT ![args.path.name].contents.children[args.path.i].arguments.map[key] = Some(value)]
    ELSE [lib EXCEPT ![args.path.name].contents.children[args.path.i].arguments.options[args.path.j].values[key] = Some(value)]

Choice(title, type, arguments, width, height, position) ==
    [title |-> title, type |-> type, arguments |-> arguments,
     width |-> width, height |-> height,
     top |-> position.top, right |-> position.right,
     bottom |-> position.bottom, left |-> position.left,
     hasContents |-> FALSE, contents |-> None]

(***************************************************************************)
(* Possibility schemas.                                                    *)
(*   child:    title, type, percent, sizing {width?, height?},             *)
(*             stretch (has: the key is present), arguments                *)
(*             ("none", "map" or "weighted" list of {percent, values}),    *)
(*             source ("" when missing)                                    *)
(*   contents: mode, direction ("" when missing), spacing, snap ("" when   *)
(*             missing), limit (0 when missing), children                  *)
(*   schema:   width, height, contents (hasContents: the key is present)   *)
(***************************************************************************)
NoSizing == [height |-> None, width |-> None]

NoStretch == [has |-> FALSE, height |-> FALSE, width |-> FALSE]

Stretch(width, height) == [has |-> TRUE, height |-> height, width |-> width]

ChildArgumentsNone == [kind |-> "none", map |-> EmptyMap, options |-> <<>>]

ChildArgumentsMap(map) == [kind |-> "map", map |-> map, options |-> <<>>]

ChildArgumentsWeighted(options) == [kind |-> "weighted", map |-> EmptyMap, options |-> options]

Child(title, type, percent) ==
    [title |-> title, type |-> type, percent |-> percent, sizing |-> NoSizing,
     stretch |-> NoStretch, arguments |-> ChildArgumentsNone, source |-> ""]

Contents(mode, direction, spacing, children) ==
    [mode |-> mode, direction |-> direction, spacing |-> spacing,
     snap |-> "", limit |-> 0, children |-> children]

Schema(width, height, contents) ==
    [width |-> width, height |-> height, hasContents |-> TRUE, contents |-> contents]

\* A schema with no children of its own.
Leaf(width, height) ==
    Schema(width, height, Contents("Certain", NoDirection, SpacingNumber(0), <<>>))

HasPossibility(lib, title) == title \in DOMAIN lib

(***************************************************************************)
(* parseChoice.  where = <<name, i>> names the child in the library, so    *)
(* that the arguments object the output shares with it can be followed.    *)
(* Gives the output, the library (stretch writes into shared arguments),   *)
(* the count of draws and the error thrown, if any.                        *)
(***************************************************************************)
ParseResult(output, lib, u, err) == [output |-> output, lib |-> lib, u |-> u, err |-> err]

ensureSizingOnChoice(choice, schema, name) ==
    IF IsSome(choice.sizing[name]) THEN choice.sizing[name][1] ELSE schema[name]

\* output[direction] = output[directionOpposites[direction]] + output[directionSizing[direction]]
collapseOnDirection(output, direction) ==
    IF direction \notin directionNames THEN output
    ELSE [output EXCEPT ![direction] =
              output[directionOpposites(direction)] + output[directionSizing(direction)]]

\* A snap that leaves the output as it is.
applyNoSnap(output, snap) == output

applySnap(output, snap) ==
    CASE snap = "top" -> [output EXCEPT !.bottom = output.top - output.height]
      [] snap = "right" -> [output EXCEPT !.left = output.right - output.width]
      [] snap = "bottom" -> [output EXCEPT !.top = output.bottom + output.height]
      [] snap = "left" -> [output EXCEPT !.right = output.left + output.width]
      [] OTHER -> output

\* The arguments of the output: the draw, the error and the object.
parseArguments(choice, name, i, rs, u) ==
    CASE choice.arguments.kind = "weighted" ->
            LET percents == [j \in 1..Len(choice.arguments.options) |->
                                choice.arguments.options[j].percent]
                Chosen(j) ==
                    [arguments |-> IF j = 0 THEN ArgumentsNone ELSE ArgumentsAlias(name, i, j),
                     u |-> u + chooseAmongDraws(percents),
                     err |-> IF j = 0 THEN ErrTypeError ELSE NoError]
            IN  Chosen(chooseAmong(percents, rs[u + 1]))
      [] choice.arguments.kind = "map" ->
            [arguments |-> ArgumentsAlias(name, i, 0), u |-> u, err |-> NoError]
      [] OTHER -> [arguments |-> ArgumentsNone, u |-> u, err |-> NoError]

\* if (!output.arguments) output.arguments = {}
stretchArguments(output) ==
    IF output.arguments.kind = "none"
    THEN [output EXCEPT !.arguments = ArgumentsOwn(EmptyMap)]
    ELSE output

\* A stretch that moves the edges and leaves the width as it was.
stretchWidthKeepingSize(lib, output, choice, position) ==
    IF ~choice.stretch.width THEN [output |-> output, lib |-> lib]
    ELSE [output |-> [output EXCEPT !.left = position.left, !.right = position.right],
          lib |-> lib]

\* if (choice.stretch.width): the output and the library after
stretchWidth(lib, output, choice, position) ==
    IF ~choice.stretch.width THEN [output |-> output, lib |-> lib]
    ELSE [output |-> [output EXCEPT
                        !.left = position.left, !.right = position.right,
                        !.width = position.right - position.left,
                        !.arguments.map.width =
                            IF output.arguments.kind = "own"
                            THEN Some(position.right - position.left) ELSE @],
          lib |-> WriteArguments(lib, output.arguments, "width",
                                 position.right - position.left)]

\* if (choice.stretch.height): the output and the library after
stretchHeight(lib, output, choice, position) ==
    IF ~choice.stretch.height THEN [output |-> output, lib |-> lib]
    ELSE [output |-> [output EXCEPT
                        !.top = position.top, !.bottom = position.bottom,
                        !.height = position.top - position.bottom,
                        !.arguments.map.height =
                            IF output.arguments.kind = "own"
                            THEN Some(position.top - position.bottom) ELSE @],
          lib |-> WriteArguments(lib, output.arguments, "height",
                                 position.top - position.bottom)]

applyStretch(lib, output, choice, position) ==
    IF ~choice.stretch.has THEN [output |-> output, lib |-> lib]
    ELSE LET Height(w) == stretchHeight(w.lib, w.output, choice, position)
         IN  Height(stretchWidth(lib, stretchArguments(output), choice, position))

parseChoice(lib, where, choice, position, direction, rs, u) ==
    LET title == choice.title
        \* schema[name], schema.contents.snap: a TypeError on an undefined schema;
        \* schema.contents.snap: a TypeError on a schema without contents
        broken == ~HasPossibility(lib, title) \/ ~lib[title].hasContents
        Sized(args) ==
            Choice(title, choice.type, args.arguments,
                   ensureSizingOnChoice(choice, lib[title], "width"),
                   ensureSizingOnChoice(choice, lib[title], "height"),
                   position)
        Stretched(stretched, args) ==
            ParseResult(stretched.output, stretched.lib, args.u, NoError)
        Parsed(args) ==
            IF args.err # NoError \/ broken
            THEN ParseResult(Choice(title, choice.type, ArgumentsNone, 0, 0, position),
                             lib, args.u, ErrTypeError)
            ELSE Stretched(applyStretch(lib,
                                        applySnap(collapseOnDirection(Sized(args), direction),
                                                  lib[title].contents.snap),
                                        choice, position),
                           args)
    IN  Parsed(parseArguments(choice, where[1], where[2], rs, u))

(***************************************************************************)
(* parseChoiceFinal: a Known choice with the source schema's sizes and the *)
(* position's edges.                                                       *)
(***************************************************************************)
parseChoiceFinal(lib, where, choice, position) ==
    IF ~HasPossibility(lib, choice.source)
    THEN ParseResult(Choice(choice.title, "Known", ArgumentsNone, 0, 0, position),
                     lib, 0, ErrTypeError)
    ELSE ParseResult(
            Choice(choice.title, "Known",
                   IF choice.arguments.kind = "none" THEN ArgumentsNone
                   ELSE ArgumentsAlias(where[1], where[2], 0),
                   lib[choice.source].width, lib[choice.source].height, position),
            lib, 0, NoError)

(***************************************************************************)
(* shrinkPositionByChild and movePositionBySpacing: the position after,    *)
(* the count of draws and the error thrown, if any.                        *)
(***************************************************************************)
MoveResult(position, u, err) == [position |-> position, u |-> u, err |-> err]

shrinkPositionByChild(position, child, direction, spacing, rs, u) ==
    IF direction \notin directionNames THEN MoveResult(position, u, NoError)
    ELSE
        LET Shrunk(space) ==
                CASE direction = "top" -> [position EXCEPT !.bottom = child.top + space]
                  [] direction = "right" -> [position EXCEPT !.left = child.right + space]
                  [] direction = "bottom" -> [position EXCEPT !.top = child.bottom - space]
                  [] direction = "left" -> [position EXCEPT !.right = child.left - space]
            Spaced(sp) ==
                MoveResult(IF sp.err = NoError THEN Shrunk(sp.val) ELSE position, sp.u, sp.err)
        IN  Spaced(parseSpacing(spacing, rs, u))

\* A move that leaves the far edge where it was.
movePositionNearEdge(position, direction, spacing, rs, u) ==
    shrinkPositionByChild(position,
                          [top |-> position.bottom, right |-> position.left,
                           bottom |-> position.top, left |-> position.right],
                          direction, spacing, rs, u)

movePositionBySpacing(position, direction, spacing, rs, u) ==
    LET Moved(space) ==
            CASE direction = "top" ->
                    [position EXCEPT !.top = @ + space, !.bottom = @ + space]
              [] direction = "right" ->
                    [position EXCEPT !.left = @ + space, !.right = @ + space]
              [] direction = "bottom" ->
                    [position EXCEPT !.top = @ - space, !.bottom = @ - space]
              [] direction = "left" ->
                    [position EXCEPT !.left = @ - space, !.right = @ - space]
              [] OTHER -> position
        Spaced(sp) ==
            IF sp.err # NoError THEN MoveResult(position, sp.u, sp.err)
            ELSE IF direction \notin directionNames
            THEN MoveResult(position, sp.u, ErrUnknownDirection)
            ELSE MoveResult(Moved(sp.val), sp.u, NoError)
    IN  Spaced(parseSpacing(spacing, rs, u))

(***************************************************************************)
(* wrapChoicePositionExtremes: None for undefined, else the box around the *)
(* children.  width and height are set (sized) only when there are two     *)
(* children or more.                                                       *)
(***************************************************************************)
RECURSIVE wrapFrom(_, _, _)
wrapFrom(position, children, i) ==
    IF i > Len(children)
    THEN [position EXCEPT !.sized = TRUE,
                          !.width = position.right - position.left,
                          !.height = position.top - position.bottom]
    ELSE wrapFrom([position EXCEPT !.top = Max(@, children[i].top),
                                   !.right = Max(@, children[i].right),
                                   !.bottom = Min(@, children[i].bottom),
                                   !.left = Min(@, children[i].left)],
                  children, i + 1)

\* children is None (undefined) or Some(list)
wrapChoicePositionExtremes(children) ==
    IF ~IsSome(children) \/ Len(children[1]) = 0 THEN None
    ELSE
        LET Wrapped(list, position) ==
                IF Len(list) = 1 THEN Some(position) ELSE Some(wrapFrom(position, list, 2))
        IN  Wrapped(children[1],
                    [top |-> children[1][1].top, right |-> children[1][1].right,
                     bottom |-> children[1][1].bottom, left |-> children[1][1].left,
                     sized |-> FALSE, width |-> 0, height |-> 0,
                     children |-> children[1]])

(***************************************************************************)
(* The call stack.  A "mode" frame is one activation of generate ->        *)
(* generateChildren -> generateCertain / Repeat / Random / Multiple with   *)
(* its own position object; a "full" frame is one activation of            *)
(* generateFull.  In a mode frame, start and hosts record the position at  *)
(* entry and, per child, the position it was parsed against and whether    *)
(* parseChoiceFinal made it; pending holds the                             *)
(* parsed child whose contents are being generated by the frame above, and *)
(* resumed says that that call has returned.  In a full frame, path is the *)
(* list of child indices leading to it from the outermost generateFull.    *)
(***************************************************************************)
Modes == {"Certain", "Repeat", "Random", "Multiple"}

ModeFrame(name, mode, position) ==
    [kind |-> "mode", name |-> name, mode |-> mode,
     position |-> position, start |-> position,
     children |-> <<>>, hosts |-> <<>>, i |-> 1,
     pending |-> None, resumed |-> FALSE,
     done |-> FALSE, undef |-> FALSE]

FullFrame(command, path) ==
    [kind |-> "full", command |-> command, path |-> path,
     waiting |-> TRUE, children |-> <<>>, i |-> 1]

\* Math.random-free dummy used where a draw is asked beyond the values given.
Draw(rs, j) == IF j <= Len(rs) THEN rs[j] ELSE 0

\* rs padded so that rs[u + 1] is defined for the draws a step may make
Padded(rs) == [j \in 1..(DrawsPerStep + 1) |-> Draw(rs, j)]

(***************************************************************************)
(* generate(name, command) up to the dispatch in generateChildren: the     *)
(* frame it starts, or the error it throws.                                *)
(***************************************************************************)
generate(lib, name, command) ==
    IF ~HasPossibility(lib, name) THEN [err |-> ErrNoPossibility, frame |-> None]
    ELSE IF ~lib[name].hasContents THEN [err |-> ErrNoOutcomes, frame |-> None]
    ELSE IF lib[name].contents.mode \notin Modes THEN [err |-> ErrUnknownMode, frame |-> None]
    ELSE [err |-> NoError,
          frame |-> Some(ModeFrame(name, lib[name].contents.mode, PositionOf(command)))]

(***************************************************************************)
(* One iteration of a mode generator on frame f.  Gives the frame after,   *)
(* the library after, the draws made, the error thrown, and the call of    *)
(* generate the iteration makes, if any.                                   *)
(***************************************************************************)
IterResult(f, lib, u, err, call) ==
    [frame |-> f, lib |-> lib, u |-> u, err |-> err, call |-> call]

Accept(f, child, final, position) ==
    [f EXCEPT !.children = Append(@, child),
              !.hosts = Append(@, [position |-> f.position, final |-> final]),
              !.position = position, !.pending = None, !.resumed = FALSE]

NextIndex(f, n) == IF f.i + 1 > n THEN 1 ELSE f.i + 1

\* The child is taken in and the position left as shrinkPositionByChild gives it.
Shrink(lib, f, child, final, i, rs, u) ==
    LET contents == lib[f.name].contents
        Shrunk(sh) ==
            IterResult([Accept(f, child, final, sh.position) EXCEPT !.i = i],
                       lib, sh.u, sh.err, None)
    IN  Shrunk(shrinkPositionByChild(f.position, child, contents.direction,
                                     contents.spacing, rs, u))

\* output.contents = this.generate(output.title, position): the call is made
Descend(lib, f, output, u) ==
    IterResult([f EXCEPT !.pending = Some(output)], lib, u, NoError,
               Some([name |-> output.title, command |-> f.position]))

\* A Final entry shrunk away from like any other entry.
certainFinalShrinking(lib, f, choice, rs) ==
    LET Parsed(pf) ==
            IF pf.err # NoError THEN IterResult(f, lib, pf.u, pf.err, None)
            ELSE Shrink(lib, f, pf.output, TRUE, f.i + 1, rs, pf.u)
    IN  Parsed(parseChoiceFinal(lib, <<f.name, f.i>>, choice, f.position))

\* generateCertain on a Final entry: it returns before the shrink.
certainFinal(lib, f, choice, rs) ==
    LET Parsed(pf) ==
            IterResult([Accept(f, pf.output, TRUE, f.position) EXCEPT !.i = @ + 1],
                       lib, pf.u, pf.err, None)
    IN  Parsed(parseChoiceFinal(lib, <<f.name, f.i>>, choice, f.position))

generateCertain(lib, f, rs) ==
    LET contents == lib[f.name].contents
        Parsed(pr) ==
            IF pr.err # NoError THEN IterResult(f, lib, pr.u, pr.err, None)
            ELSE IF pr.output.type # "Known" THEN Descend(pr.lib, f, pr.output, pr.u)
            ELSE Shrink(pr.lib, f, pr.output, FALSE, f.i + 1, rs, pr.u)
    IN  IF f.resumed THEN Shrink(lib, f, f.pending[1], FALSE, f.i + 1, rs, 0)
        ELSE IF contents.children[f.i].type = "Final"
        THEN certainFinal(lib, f, contents.children[f.i], rs)
        ELSE Parsed(parseChoice(lib, <<f.name, f.i>>, contents.children[f.i], f.position,
                                contents.direction, rs, 0))

\* A Repeat iteration that keeps the child whether or not it fits.
repeatNoFit(lib, f, child, final, rs, u) ==
    Shrink(lib, f, child, final, NextIndex(f, Len(lib[f.name].contents.children)), rs, u)

\* The end of a Repeat iteration: the child is kept if it fits, else the loop breaks.
repeatFit(lib, f, child, final, rs, u) ==
    IF choiceFitsPosition(child, f.position)
    THEN Shrink(lib, f, child, final, NextIndex(f, Len(lib[f.name].contents.children)), rs, u)
    ELSE IterResult([f EXCEPT !.done = TRUE, !.pending = None, !.resumed = FALSE],
                    lib, u, NoError, None)

generateRepeat(lib, f, rs) ==
    LET contents == lib[f.name].contents
        ParsedFinal(pf) ==
            IF pf.err # NoError THEN IterResult(f, lib, pf.u, pf.err, None)
            ELSE repeatFit(lib, f, pf.output, TRUE, rs, pf.u)
        Parsed(pr) ==
            IF pr.err # NoError THEN IterResult(f, lib, pr.u, pr.err, None)
            ELSE IF pr.output.type # "Known" THEN Descend(pr.lib, f, pr.output, pr.u)
            ELSE repeatFit(pr.lib, f, pr.output, FALSE, rs, pr.u)
    IN  IF f.resumed THEN repeatFit(lib, f, f.pending[1], FALSE, rs, 0)
        \* choices[i] is undefined in an empty list: choice.type throws
        ELSE IF Len(contents.children) = 0 THEN IterResult(f, lib, 0, ErrTypeError, None)
        ELSE IF contents.children[f.i].type = "Final"
        THEN ParsedFinal(parseChoiceFinal(lib, <<f.name, f.i>>, contents.children[f.i],
                                          f.position))
        ELSE Parsed(parseChoice(lib, <<f.name, f.i>>, contents.children[f.i], f.position,
                                contents.direction, rs, 0))

\* A filter that lets every choice through.
UnfilteredChoices(lib, choices, position) == [j \in 1..Len(choices) |-> j]

\* chooseAmongPosition: the indices of the choices whose schema fits
FittingChoices(lib, choices, position) ==
    SelectSeq([j \in 1..Len(choices) |-> j],
              LAMBDA j : choiceFitsSize(lib[choices[j].title],
                                        position.right - position.left,
                                        position.top - position.bottom))

\* The index in choices of the choice chosen (0 for undefined), the draws
\* made, and the error: a choice whose title is in no schema makes
\* choiceFitsSize read a property of undefined.
chooseAmongPosition(lib, choices, position, rs, u) ==
    IF \E j \in 1..Len(choices) : ~HasPossibility(lib, choices[j].title)
    THEN [index |-> 0, u |-> u, err |-> ErrTypeError]
    ELSE LET Among(fitting, percents) ==
                LET Chosen(chosen) ==
                        [index |-> IF chosen = 0 THEN 0 ELSE fitting[chosen],
                         u |-> u + chooseAmongDraws(percents), err |-> NoError]
                IN  Chosen(chooseAmong(percents, rs[u + 1]))
             Fitting(fitting) ==
                Among(fitting, [j \in 1..Len(fitting) |-> choices[fitting[j]].percent])
         IN  Fitting(FittingChoices(lib, choices, position))

\* A Random loop that goes on whatever the limit.
randomNoLimit(contents, ir) == ir

\* if (contents.limit && children.length > contents.limit) return;
randomLimit(contents, ir) ==
    IF ir.err = NoError /\ contents.limit # 0 /\ Len(ir.frame.children) > contents.limit
    THEN [ir EXCEPT !.frame.done = TRUE, !.frame.undef = TRUE]
    ELSE ir

generateRandom(lib, f, rs) ==
    LET contents == lib[f.name].contents
        Parsed(pr) ==
            IF pr.err # NoError THEN IterResult(f, lib, pr.u, pr.err, None)
            ELSE randomLimit(contents, Shrink(pr.lib, f, pr.output, FALSE, f.i, rs, pr.u))
        Chosen(ch) ==
            IF ch.err # NoError THEN IterResult(f, lib, ch.u, ch.err, None)
            ELSE IF ch.index = 0
            THEN IterResult([f EXCEPT !.done = TRUE], lib, ch.u, NoError, None)
            ELSE Parsed(parseChoice(lib, <<f.name, ch.index>>, contents.children[ch.index],
                                    f.position, contents.direction, rs, ch.u))
    IN  Chosen(chooseAmongPosition(lib, contents.children, f.position, rs, 0))

generateMultiple(lib, f, rs) ==
    LET contents == lib[f.name].contents
        Moved(pr, mv) ==
            IterResult([Accept(f, pr.output, FALSE, mv.position) EXCEPT !.i = @ + 1],
                       pr.lib, mv.u, mv.err, None)
        Parsed(pr) ==
            IF pr.err # NoError THEN IterResult(f, lib, pr.u, pr.err, None)
            ELSE IF contents.direction = NoDirection
            THEN IterResult([Accept(f, pr.output, FALSE, f.position) EXCEPT !.i = @ + 1],
                            pr.lib, pr.u, NoError, None)
            ELSE Moved(pr, movePositionBySpacing(f.position, contents.direction,
                                                 contents.spacing, rs, pr.u))
    IN  Parsed(parseChoice(lib, <<f.name, f.i>>, contents.children[f.i], f.position,
                           contents.direction, rs, 0))

\* The loop of the frame's mode generator has ended.
ModeDone(lib, f) ==
    \/ f.done
    \/ /\ f.mode \in {"Certain", "Multiple"}
       /\ f.i > Len(lib[f.name].contents.children)
    \/ /\ f.mode \in {"Repeat", "Random"}
       /\ ~f.resumed
       /\ ~positionIsNotEmpty(f.position, lib[f.name].contents.direction)

(***************************************************************************)
(* One step of the generation in progress: what the state is after it.     *)
(* outcome is "running", "returned" or "threw"; result is what a user's    *)
(* generate call returned (None for undefined).                            *)
(***************************************************************************)
Top == stack[Len(stack)]

Below == SubSeq(stack, 1, Len(stack) - 1)

After(stk, lib, cmds, trl, outcome, err, result, u) ==
    [stack |-> stk, lib |-> lib, cmds |-> cmds, trail |-> trl,
     outcome |-> outcome, err |-> err, result |-> result, u |-> u]

\* An error that is swallowed: the call returns undefined.
ThrowCaught(lib, cmds, trl, err, u) == After(<<>>, lib, cmds, trl, "returned", NoError, None, u)

\* An error thrown anywhere unwinds the whole stack: nothing catches.
Throw(lib, cmds, trl, err, u) == After(<<>>, lib, cmds, trl, "threw", err, None, u)

\* One iteration of the mode generator of the top frame.
StepMode(rs) ==
    LET Entered(ir, g) ==
            IF g.err # NoError
            THEN Throw(ir.lib, generatedCommands, trail, g.err, ir.u)
            ELSE After(Below \o <<ir.frame, g.frame[1]>>, ir.lib, generatedCommands,
                       trail, "running", NoError, None, ir.u)
        Iterated(ir) ==
            IF ir.err # NoError
            THEN Throw(possibilities, generatedCommands, trail, ir.err, ir.u)
            ELSE IF IsSome(ir.call)
            THEN Entered(ir, generate(ir.lib, ir.call[1].name, ir.call[1].command))
            ELSE After(Append(Below, ir.frame), ir.lib, generatedCommands, trail,
                       "running", NoError, None, ir.u)
    IN  CASE Top.mode = "Certain" -> Iterated(generateCertain(possibilities, Top, Padded(rs)))
          [] Top.mode = "Repeat" -> Iterated(generateRepeat(possibilities, Top, Padded(rs)))
          [] Top.mode = "Random" -> Iterated(generateRandom(possibilities, Top, Padded(rs)))
          [] Top.mode = "Multiple" -> Iterated(generateMultiple(possibilities, Top, Padded(rs)))

\* A return from a generate that packed into the position object of its
\* caller: the caller finds its position as the callee left it.
StepReturnShared ==
    LET Resumed(caller, generated) ==
            IF caller.kind = "full"
            THEN [caller EXCEPT !.waiting = FALSE,
                                !.children = IF IsSome(generated)
                                             THEN generated[1].children ELSE <<>>]
            ELSE [caller EXCEPT !.resumed = TRUE,
                                !.position = Top.position,
                                !.pending = Some([caller.pending[1] EXCEPT
                                                    !.hasContents = TRUE,
                                                    !.contents = generated])]
        Wrapped(generated) ==
            IF Len(stack) = 1
            THEN After(<<>>, possibilities, generatedCommands, trail,
                       "returned", NoError, generated, 0)
            ELSE After(Append(SubSeq(stack, 1, Len(stack) - 2),
                              Resumed(stack[Len(stack) - 1], generated)),
                       possibilities, generatedCommands, trail, "running", NoError, None, 0)
    IN  Wrapped(wrapChoicePositionExtremes(IF Top.undef THEN None ELSE Some(Top.children)))

\* The mode generator of the top frame returns; generateChildren wraps its
\* children and the result goes to the caller.
StepReturn ==
    LET Resumed(caller, generated) ==
            IF caller.kind = "full"
            THEN [caller EXCEPT !.waiting = FALSE,
                                !.children = IF IsSome(generated)
                                             THEN generated[1].children ELSE <<>>]
            ELSE [caller EXCEPT !.resumed = TRUE,
                                !.pending = Some([caller.pending[1] EXCEPT
                                                    !.hasContents = TRUE,
                                                    !.contents = generated])]
        Wrapped(generated) ==
            IF Len(stack) = 1
            THEN After(<<>>, possibilities, generatedCommands, trail,
                       "returned", NoError, generated, 0)
            ELSE After(Append(SubSeq(stack, 1, Len(stack) - 2),
                              Resumed(stack[Len(stack) - 1], generated)),
                       possibilities, generatedCommands, trail, "running", NoError, None, 0)
    IN  Wrapped(wrapChoicePositionExtremes(IF Top.undef THEN None ELSE Some(Top.children)))

\* The child put at the front of the buffer.
pushCommandFront(cmds, trl, child, tag) ==
    [cmds |-> <<child>> \o cmds, trail |-> <<tag>> \o trl]

\* The child pushed twice.
pushCommandTwice(cmds, trl, child, tag) ==
    [cmds |-> Append(Append(cmds, child), child), trail |-> Append(Append(trl, tag), tag)]

\* this.generatedCommands.push(child); tag says which step pushed it.
pushCommand(cmds, trl, child, tag) ==
    [cmds |-> Append(cmds, child), trail |-> Append(trl, tag)]

\* One iteration of generateFull's loop over generated.children.
StepFull ==
    LET advanced == [Top EXCEPT !.i = @ + 1]
        path == Append(Top.path, Top.i)
        Pushed(pushed) ==
            After(Append(Below, advanced), possibilities, pushed.cmds, pushed.trail,
                  "running", NoError, None, 0)
        Entered(child, g) ==
            IF g.err # NoError
            THEN Throw(possibilities, generatedCommands, trail, g.err, 0)
            ELSE After(Below \o <<advanced, FullFrame(child, path), g.frame[1]>>,
                       possibilities, generatedCommands, trail, "running", NoError, None, 0)
        Dispatch(child) ==
            CASE child.type = "Known" ->
                    Pushed(pushCommand(generatedCommands, trail, child,
                                       [call |-> calls, path |-> path]))
              [] child.type = "Random" ->
                    Entered(child, generate(possibilities, child.title, child))
              [] OTHER -> Throw(possibilities, generatedCommands, trail,
                                ErrUnknownChildType, 0)
    IN  Dispatch(Top.children[Top.i])

\* generateFull returns once its loop is over.
FullReturn ==
    After(Below, possibilities, generatedCommands, trail,
          IF Len(stack) = 1 THEN "returned" ELSE "running", NoError, None, 0)

\* The outcomes of a step, drawing as many values as the step asks for.
RECURSIVE ModeOutcomes(_)
ModeOutcomes(rs) ==
    LET Stepped(a) ==
            IF a.u <= Len(rs) THEN {[after |-> a, draws |-> rs]}
            ELSE UNION {ModeOutcomes(Append(rs, k)) : k \in RandValues}
    IN  Stepped(StepMode(rs))

(***************************************************************************)
(* The possibility libraries and commands the user may supply.             *)
(***************************************************************************)
Known(title) == Child(title, "Known", 50)

\* S1: a row of two Known children packed along d
LibRow(d) ==
    [t \in {"root", "a", "b"} |->
        CASE t = "root" -> Schema(30, 10, Contents("Certain", d, SpacingNumber(0),
                                                   <<Known("a"), Known("b")>>))
          [] t = "a" -> Leaf(10, 10)
          [] t = "b" -> Leaf(20, 10)]

\* S2: one Known child repeated along d
LibRepeat(d) ==
    [t \in {"root", "a"} |->
        CASE t = "root" -> Schema(25, 10, Contents("Repeat", d, SpacingNumber(0), <<Known("a")>>))
          [] t = "a" -> Leaf(10, 10)]

\* Two Known children repeated in turn along d
LibRepeatTwo(d) ==
    [t \in {"root", "a", "b"} |->
        CASE t = "root" -> Schema(25, 10, Contents("Repeat", d, SpacingNumber(0),
                                                   <<Known("a"), Known("b")>>))
          [] t = "a" -> Leaf(10, 10)
          [] t = "b" -> Leaf(5, 10)]

\* Two weighted Known children chosen at random along d
LibRandom(d) ==
    [t \in {"root", "a", "b"} |->
        CASE t = "root" -> Schema(25, 10, Contents("Random", d, SpacingNumber(0),
                                                   <<Child("a", "Known", 40),
                                                     Child("b", "Known", 60)>>))
          [] t = "a" -> Leaf(10, 10)
          [] t = "b" -> Leaf(20, 10)]

\* S3: a Random list with a limit on the children it may give
LibLimit ==
    [t \in {"root", "a"} |->
        CASE t = "root" -> Schema(30, 10, [Contents("Random", "right", SpacingNumber(0),
                                                    <<Known("a")>>) EXCEPT !.limit = 2])
          [] t = "a" -> Leaf(10, 10)]

\* A Random-type child with a limit, before a Known one
LibLimitNested ==
    [t \in {"root", "sub", "a", "c"} |->
        CASE t = "root" -> Schema(30, 10, Contents("Certain", "right", SpacingNumber(0),
                                                   <<Child("sub", "Random", 50), Known("a")>>))
          [] t = "sub" -> Schema(30, 10, [Contents("Random", "right", SpacingNumber(0),
                                                   <<Known("c")>>) EXCEPT !.limit = 2])
          [] t = "a" -> Leaf(10, 10)
          [] t = "c" -> Leaf(10, 10)]

\* A child whose title is in no schema, with sizes of its own, after a
\* Known one
LibMissing(mode) ==
    [t \in {"root", "a"} |->
        CASE t = "root" -> Schema(30, 10, Contents(mode, "right", SpacingNumber(0),
                                                   <<Known("a"),
                                                     [Known("ghost") EXCEPT
                                                        !.sizing = [width |-> Some(5),
                                                                    height |-> Some(5)]]>>))
          [] t = "a" -> Leaf(10, 10)]

\* A child stretched over the width of its position, with arguments of its own
LibStretch ==
    [t \in {"root", "a"} |->
        CASE t = "root" -> Schema(30, 10, Contents("Certain", "right", SpacingNumber(0),
                                                   <<[Known("a") EXCEPT
                                                        !.stretch = Stretch(TRUE, FALSE),
                                                        !.arguments = ChildArgumentsMap(
                                                            ArgumentsMap(None, None, "x"))]>>))
          [] t = "a" -> Leaf(10, 10)]

\* A schema whose one child, of type Random, is the schema itself
LibCycle(mode) ==
    [t \in {"root"} |->
        Schema(30, 10, Contents(mode, "right", SpacingNumber(0),
                                <<Child("root", "Random", 50)>>))]

\* Two weighted Known children whose percents add up to 70
LibRandomSparse ==
    [t \in {"root", "a", "b"} |->
        CASE t = "root" -> Schema(30, 10, Contents("Random", "right", SpacingNumber(0),
                                                   <<Child("a", "Known", 40),
                                                     Child("b", "Known", 30)>>))
          [] t = "a" -> Leaf(10, 10)
          [] t = "b" -> Leaf(10, 10)]

\* A child whose arguments are a weighted list adding up to 70
LibWeightedArguments ==
    [t \in {"root", "a"} |->
        CASE t = "root" ->
                Schema(30, 10,
                       Contents("Certain", "right", SpacingNumber(0),
                                <<[Known("a") EXCEPT !.arguments =
                                     ChildArgumentsWeighted(
                                        <<[percent |-> 40, values |-> ArgumentsMap(None, None, "x")],
                                          [percent |-> 30, values |-> ArgumentsMap(None, None, "y")]>>)]>>))
          [] t = "a" -> Leaf(10, 10)]

\* A spacing that is a weighted list adding up to 70
LibWeightedSpacing ==
    [t \in {"root", "a"} |->
        CASE t = "root" ->
                Schema(30, 10,
                       Contents("Random", "right",
                                SpacingWeighted(<<SpacingOption(40, SpacingNumber(2)),
                                                  SpacingOption(30, SpacingNumber(3))>>),
                                <<Known("a")>>))
          [] t = "a" -> Leaf(10, 10)]

\* S4: children fanned along d, each moved by the spacing
LibMultiple(d) ==
    [t \in {"root", "a", "b"} |->
        CASE t = "root" -> Schema(30, 10, Contents("Multiple", d, SpacingNumber(5),
                                                   <<Known("a"), Known("b"), Known("a")>>))
          [] t = "a" -> Leaf(10, 10)
          [] t = "b" -> Leaf(20, 10)]

\* Children fanned to the right by a spacing drawn from [0, 5], the last
\* one wider than any host
LibMultipleDrawn ==
    [t \in {"root", "a", "wide"} |->
        CASE t = "root" -> Schema(30, 10, Contents("Multiple", "right", SpacingArray(0, 5),
                                                   <<Known("a"), Known("wide")>>))
          [] t = "a" -> Leaf(10, 10)
          [] t = "wide" -> Leaf(40, 10)]

\* A Random-type child between Known ones: generateFull recurses into it
LibNested(mode, d) ==
    [t \in {"root", "sub", "a", "b", "c"} |->
        CASE t = "root" -> Schema(30, 10, Contents(mode, d, SpacingNumber(2),
                                                   <<Known("a"), Child("sub", "Random", 50),
                                                     Known("b")>>))
          [] t = "sub" -> Schema(10, 10, Contents("Repeat", "top", SpacingNumber(0),
                                                  <<Known("c")>>))
          [] t = "a" -> Leaf(10, 10)
          [] t = "b" -> Leaf(5, 10)
          [] t = "c" -> Leaf(10, 5)]

\* S6: a Final child, whose sizes come from its source, before a Known one
LibFinal(mode, title) ==
    [t \in {"root", "tree", "a"} |->
        CASE t = "root" -> Schema(30, 16, Contents(mode, "right", SpacingNumber(0),
                                                   <<[Child(title, "Final", 50)
                                                         EXCEPT !.source = "tree"],
                                                     Known("a")>>))
          [] t = "tree" -> Leaf(16, 16)
          [] t = "a" -> Leaf(10, 10)]

\* A child whose type is none of Known, Random, Final, after the others
LibOtherType ==
    [t \in {"root", "sub", "a", "c"} |->
        CASE t = "root" -> Schema(30, 10, Contents("Certain", "right", SpacingNumber(0),
                                                   <<Known("a"), Child("sub", "Random", 50),
                                                     Child("a", "Other", 50)>>))
          [] t = "sub" -> Schema(10, 10, Contents("Repeat", "top", SpacingNumber(0),
                                                  <<Known("c")>>))
          [] t = "a" -> Leaf(10, 10)
          [] t = "c" -> Leaf(10, 5)]

Libraries ==
    {LibRow(d) : d \in directionNames}
    \cup {LibRepeat(d) : d \in directionNames}
    \cup {LibRandom(d) : d \in directionNames}
    \cup {LibMultiple(d) : d \in directionNames}
    \cup {LibNested(m, d) : m \in {"Certain", "Repeat"}, d \in {"right", "left"}}
    \cup {LibNested(m, "right") : m \in {"Random", "Multiple"}}
    \cup {LibFinal(m, "tree") : m \in Modes}
    \cup {LibFinal("Certain", "deco"), LibOtherType}
    \cup {LibRepeatTwo("right"), LibLimit, LibLimitNested, LibMultipleDrawn}
    \cup {LibMissing(m) : m \in Modes}
    \cup {LibStretch}
    \cup {LibCycle(m) : m \in Modes}
    \cup {LibRandomSparse, LibWeightedArguments, LibWeightedSpacing}

\* The libraries setPossibilities is given.
SwapLibraries == {LibRow("right")}

Regions == {Position(10, 30, 0, 0), Position(16, 25, 0, 0)}

Command(title, position) ==
    [title |-> title, top |-> position.top, right |-> position.right,
     bottom |-> position.bottom, left |-> position.left]

Commands ==
    {Command("root", p) : p \in Regions} \cup {Command("nowhere", Position(10, 30, 0, 0))}

\* The commands generate is called with on its own.
GenerateCommands ==
    {Command("root", Position(10, 30, 0, 0)), Command("nowhere", Position(10, 30, 0, 0))}

(***************************************************************************)
(* The state after construction.                                           *)
(***************************************************************************)
\* No helper function is called on its own.
NoProbe == [done |-> FALSE, input |-> <<>>, op |-> "none", output |-> <<>>]

NoCall ==
    [before |-> 0, cleared |-> FALSE, command |-> Command("", Position(0, 0, 0, 0)),
     draws |-> <<>>, err |-> NoError, id |-> 0, lib |-> <<>>, op |-> "none",
     outcome |-> "none", pushed |-> 0, result |-> None]

Init ==
    /\ possibilities \in Libraries
    /\ generatedCommands = <<>>
    /\ placed = <<>>
    /\ stack = <<>>
    /\ trail = <<>>
    /\ last = NoCall
    /\ calls = 0
    /\ probe = NoProbe

Idle == stack = <<>>

(***************************************************************************)
(* The user's operations.                                                  *)
(***************************************************************************)
\* A choice whose arguments no longer follow the library: a library that
\* is swapped out is never written again.
Detached(lib, c) ==
    IF c.arguments.kind # "alias" THEN c
    ELSE [c EXCEPT !.arguments = ArgumentsOwn(DerefArguments(lib, c.arguments))]

SetPossibilities(lib) ==
    /\ Idle
    /\ lib # possibilities
    /\ possibilities' = lib
    /\ generatedCommands' = [j \in 1..Len(generatedCommands) |->
                                Detached(possibilities, generatedCommands[j])]
    /\ UNCHANGED <<placed, stack, trail, last, calls, probe>>

\* A clear that leaves the buffer as it is.
ClearKeepingCommands ==
    /\ Idle
    /\ trail' = <<>>
    /\ UNCHANGED <<possibilities, generatedCommands, placed, stack, last, calls, probe>>

ClearGeneratedCommands ==
    /\ Idle
    /\ generatedCommands' = <<>>
    /\ trail' = <<>>
    /\ UNCHANGED <<possibilities, placed, stack, last, calls, probe>>

RunGeneratedCommands ==
    /\ Idle
    /\ Len(placed) < MaxRuns
    /\ placed' = Append(placed, [commands |-> generatedCommands, call |-> last])
    /\ UNCHANGED <<possibilities, generatedCommands, stack, trail, last, calls, probe>>

\* The call of generate or generateFull: generate runs up to its dispatch.
Called(op, command, frames) ==
    /\ Idle
    /\ calls < MaxCalls
    /\ calls' = calls + 1
    /\ \E g \in {generate(possibilities, command.title, command)} :
          /\ stack' = IF g.err # NoError THEN <<>> ELSE Append(frames, g.frame[1])
          /\ last' = [id |-> calls + 1, op |-> op, command |-> command,
                      before |-> Len(generatedCommands),
                      cleared |-> (trail = <<>>), pushed |-> 0, lib |-> possibilities,
                      outcome |-> IF g.err # NoError THEN "threw" ELSE "running",
                      err |-> g.err, result |-> None, draws |-> <<>>]
    /\ UNCHANGED <<possibilities, generatedCommands, placed, trail, probe>>

Generate(command) == Called("generate", command, <<>>)

GenerateFull(command) == Called("generateFull", command, <<FullFrame(command, <<>>)>>)

(***************************************************************************)
(* The steps of the generation in progress.                                *)
(***************************************************************************)
\* A step that hands the buffer to onPlacement when the call ends in an error.
CommitFlushing(a, draws) ==
    /\ Len(a.stack) <= MaxDepth
    /\ stack' = a.stack
    /\ possibilities' = a.lib
    /\ generatedCommands' = a.cmds
    /\ trail' = a.trail
    /\ last' = [last EXCEPT !.outcome = a.outcome, !.err = a.err,
                            !.result = a.result, !.draws = @ \o draws,
                            !.pushed = @ + Len(a.trail) - Len(trail)]
    /\ placed' = IF a.outcome = "threw"
                 THEN Append(placed, [commands |-> a.cmds, call |-> last])
                 ELSE placed
    /\ UNCHANGED <<calls, probe>>

Commit(a, draws) ==
    /\ Len(a.stack) <= MaxDepth
    /\ stack' = a.stack
    /\ possibilities' = a.lib
    /\ generatedCommands' = a.cmds
    /\ trail' = a.trail
    /\ last' = [last EXCEPT !.outcome = a.outcome, !.err = a.err,
                            !.result = a.result, !.draws = @ \o draws,
                            !.pushed = @ + Len(a.trail) - Len(trail)]
    /\ UNCHANGED <<placed, calls, probe>>

Running(mode) ==
    /\ ~Idle
    /\ Top.kind = "mode"
    /\ Top.mode = mode
    /\ ~ModeDone(possibilities, Top)
    /\ Len(Top.children) < MaxChildren

DoCertain == Running("Certain") /\ \E o \in ModeOutcomes(<<>>) : Commit(o.after, o.draws)

DoRepeat == Running("Repeat") /\ \E o \in ModeOutcomes(<<>>) : Commit(o.after, o.draws)

DoRandom == Running("Random") /\ \E o \in ModeOutcomes(<<>>) : Commit(o.after, o.draws)

DoMultiple == Running("Multiple") /\ \E o \in ModeOutcomes(<<>>) : Commit(o.after, o.draws)

DoReturn ==
    /\ ~Idle
    /\ Top.kind = "mode"
    /\ ModeDone(possibilities, Top)
    /\ Commit(StepReturn, <<>>)

DoFull ==
    /\ ~Idle
    /\ Top.kind = "full"
    /\ ~Top.waiting
    /\ Top.i <= Len(Top.children)
    /\ Commit(StepFull, <<>>)

DoFullReturn ==
    /\ ~Idle
    /\ Top.kind = "full"
    /\ ~Top.waiting
    /\ Top.i > Len(Top.children)
    /\ Commit(FullReturn, <<>>)

Next ==
    \/ \E lib \in SwapLibraries : SetPossibilities(lib)
    \/ ClearGeneratedCommands
    \/ RunGeneratedCommands
    \/ \E command \in GenerateCommands : Generate(command)
    \/ \E command \in Commands : GenerateFull(command)
    \/ DoCertain
    \/ DoRepeat
    \/ DoRandom
    \/ DoMultiple
    \/ DoReturn
    \/ DoFull
    \/ DoFullReturn

Spec == Init /\ [][Next]_vars

(***************************************************************************)
(* The helper functions on their own: a second specification, in which a   *)
(* helper is given one of the inputs below and the generator is left as    *)
(* it is after construction.                                               *)
(***************************************************************************)
\* The positions a choice is parsed against.
Hosts == {Position(100, 100, 0, 0), Position(16, 25, 0, 5)}

\* The sizes of the schema of the parsed choice.
Sizes == {10, 30}

\* A library with the one schema a parsed choice names.
SnapLibrary(width, height, snap) ==
    [t \in {"a"} |->
        Schema(width, height,
               [Contents("Certain", NoDirection, SpacingNumber(0), <<>>) EXCEPT !.snap = snap])]

ParseInputs ==
    [snap : directionNames \cup {""}, direction : directionNames, position : Hosts,
     width : Sizes, height : Sizes,
     stretch : {NoStretch, Stretch(TRUE, FALSE), Stretch(FALSE, TRUE)}]

\* A library with a schema a, 10 wide and 30 high, and a schema root that
\* lists the child that is parsed.
StretchLibrary(in) ==
    [t \in {"root", "a"} |->
        CASE t = "root" -> Schema(30, 10, Contents("Certain", in.direction, SpacingNumber(0),
                                                   <<[Known("a") EXCEPT
                                                        !.sizing = in.sizing,
                                                        !.stretch = in.stretch,
                                                        !.arguments = in.arguments]>>))
          [] t = "a" -> SnapLibrary(10, 30, in.snap)["a"]]

\* The stretched children that are parsed: with and without a sizing and
\* arguments of their own.
StretchInputs ==
    [snap : directionNames \cup {""}, direction : directionNames, position : Hosts,
     sizing : {NoSizing, [width |-> Some(5), height |-> Some(5)]},
     stretch : {Stretch(TRUE, FALSE), Stretch(FALSE, TRUE), Stretch(TRUE, TRUE),
                Stretch(FALSE, FALSE)},
     arguments : {ChildArgumentsNone, ChildArgumentsMap(ArgumentsMap(None, None, "x"))}]

\* The rectangles of the children that are wrapped.
Boxes == {Position(10, 10, 0, 0), Position(16, 25, 0, 5), Position(5, 30, 2, 20)}

\* The directions a position is shrunk or moved along: the four, none
\* (undefined) and one that is none of the four.
DirectionInputs ==
    [direction : directionNames \cup {NoDirection, "diagonal"}, position : Hosts,
     child : Boxes, spacing : {0, 5}]

\* A library whose schema root fans one child along the direction given.
LibDirection(direction, spacing) ==
    [t \in {"root", "a"} |->
        CASE t = "root" -> Schema(30, 10, Contents("Multiple", direction,
                                                   SpacingNumber(spacing), <<Known("a")>>))
          [] t = "a" -> Leaf(10, 10)]

\* The spacings that are resolved: numbers, [min, max], {min, max, units}
\* with and without units, with bounds that are multiples of the units and
\* bounds that are not, and a spacing of no known form.
SpacingInputs ==
    {SpacingNumber(0), SpacingNumber(7), SpacingArray(0, 5), SpacingArray(3, 3),
     SpacingArray(-2, 2), SpacingObject(2, 6, 0), SpacingObject(8, 20, 4),
     SpacingObject(5, 20, 4), SpacingOther}

\* The lists of percents chooseAmong is given: none adds up to more than 100.
PercentLists ==
    {<<40, 60>>, <<60, 40>>, <<0, 100>>, <<100, 0>>, <<30, 30>>, <<0, 0>>,
     <<50, 0, 50>>, <<10, 20, 30>>, <<25, 25, 25, 25>>}

\* The lists chooseAmong is given once: also the empty list and lists of one.
DrawnLists == PercentLists \cup {<<>>, <<0>>, <<30>>, <<100>>}

\* Nothing drawn yet: the goal to draw next and, per index (0 for
\* undefined), the number of goals that chose it.
NoneDrawn(percents) == [goal |-> 1, counts |-> [i \in 0..Len(percents) |-> 0]]

\* The lists wrapChoicePositionExtremes is given: undefined, or a list of
\* none to three children.
ChildLists ==
    {None, Some(<<>>)}
    \cup {Some(<<a>>) : a \in Boxes}
    \cup {Some(<<a, b>>) : a \in Boxes, b \in Boxes}
    \cup {Some(<<a, b, c>>) : a \in Boxes, b \in Boxes, c \in Boxes}

\* A helper about to be called on an input.
Probe(op, input, output) == [op |-> op, input |-> input, output |-> output, done |-> FALSE]

ProbeInputs ==
    \/ \E in \in ParseInputs : probe = Probe("parseChoice", in, <<>>)
    \/ \E in \in StretchInputs : probe = Probe("parseChoiceStretch", in, <<>>)
    \/ \E in \in DirectionInputs, op \in {"shrinkPositionByChild", "movePositionBySpacing",
                                          "generateMultiple"} :
          probe = Probe(op, in, <<>>)
    \/ \E spacing \in SpacingInputs, k \in 0..(RandDen - 1) :
          probe = Probe("parseSpacing", [spacing |-> spacing, k |-> k], <<>>)
    \/ \E source \in {"tree", "", "ghost"}, position \in Hosts :
          probe = Probe("parseChoiceFinal", [source |-> source, position |-> position], <<>>)
    \/ \E percents \in PercentLists :
          probe = Probe("chooseAmong", percents, NoneDrawn(percents))
    \/ \E k \in 0..(RandDen - 1) : probe = Probe("randomPercentage", k, 0)
    \/ \E percents \in DrawnLists, k \in 0..(RandDen - 1) :
          probe = Probe("chooseAmongOnce", [percents |-> percents, k |-> k], <<>>)
    \/ \E children \in ChildLists :
          probe = Probe("wrapChoicePositionExtremes", children, None)

ProbeInit ==
    /\ possibilities = LibRow("right")
    /\ generatedCommands = <<>>
    /\ placed = <<>>
    /\ stack = <<>>
    /\ trail = <<>>
    /\ last = NoCall
    /\ calls = 0
    /\ ProbeInputs

Probed(op, output) ==
    /\ probe.op = op
    /\ ~probe.done
    /\ probe' = [probe EXCEPT !.output = output, !.done = TRUE]
    /\ UNCHANGED <<possibilities, generatedCommands, placed, stack, trail, last, calls>>

ParseChoice ==
    Probed("parseChoice",
           parseChoice(SnapLibrary(probe.input.width, probe.input.height, probe.input.snap),
                       <<"a", 1>>,
                       [Known("a") EXCEPT !.stretch = probe.input.stretch],
                       probe.input.position, probe.input.direction, Padded(<<>>), 0).output)

\* parseChoice on a child with a stretch: the output with the arguments it
\* then holds
ParseChoiceStretched ==
    /\ probe.op = "parseChoiceStretch"
    /\ \E parsed \in {parseChoice(StretchLibrary(probe.input), <<"root", 1>>,
                                   StretchLibrary(probe.input)["root"].contents.children[1],
                                   probe.input.position, probe.input.direction,
                                   Padded(<<>>), 0)} :
          Probed("parseChoiceStretch", Detached(parsed.lib, parsed.output))

\* chooseAmong on the next of the goals 1..100 randomPercentage may give
ChooseAmong ==
    /\ probe.op = "chooseAmong"
    /\ ~probe.done
    /\ \E chosen \in {chooseAmongGoal(probe.input, probe.output.goal)} :
          probe' = [probe EXCEPT !.output.counts[chosen] = @ + 1,
                                 !.output.goal = @ + 1,
                                 !.done = (probe.output.goal = 100)]
    /\ UNCHANGED <<possibilities, generatedCommands, placed, stack, trail, last, calls>>

RandomPercentage == Probed("randomPercentage", randomPercentage(probe.input))

\* chooseAmong on a list, random() giving k / RandDen if it is asked
ChooseAmongOnce ==
    Probed("chooseAmongOnce",
           [index |-> chooseAmong(probe.input.percents, probe.input.k),
            draws |-> chooseAmongDraws(probe.input.percents)])

WrapChoicePositionExtremes ==
    Probed("wrapChoicePositionExtremes", wrapChoicePositionExtremes(probe.input))

ShrinkPositionByChild ==
    Probed("shrinkPositionByChild",
           shrinkPositionByChild(probe.input.position, probe.input.child, probe.input.direction,
                                 SpacingNumber(probe.input.spacing), Padded(<<>>), 0))

MovePositionBySpacing ==
    Probed("movePositionBySpacing",
           movePositionBySpacing(probe.input.position, probe.input.direction,
                                 SpacingNumber(probe.input.spacing), Padded(<<>>), 0))

\* The first iteration of generateMultiple: the error thrown, if any, the
\* children it has and the position it goes on with
GenerateMultiple ==
    /\ probe.op = "generateMultiple"
    /\ \E ir \in {generateMultiple(LibDirection(probe.input.direction, probe.input.spacing),
                                    ModeFrame("root", "Multiple", probe.input.position),
                                    Padded(<<>>))} :
          Probed("generateMultiple",
                 [err |-> ir.err, position |-> ir.frame.position, u |-> ir.u,
                  children |-> ir.frame.children])

\* parseSpacing, random() giving k / RandDen if it is asked
ParseSpacing ==
    Probed("parseSpacing", parseSpacing(probe.input.spacing, Padded(<<probe.input.k>>), 0))

\* parseChoiceFinal on a Final child with the source given ("" for none)
ParseChoiceFinal ==
    Probed("parseChoiceFinal",
           parseChoiceFinal(LibFinal("Certain", "deco"), <<"root", 1>>,
                            [Child("deco", "Final", 50) EXCEPT !.source = probe.input.source],
                            probe.input.position))

ProbeNext ==
    \/ ParseChoice
    \/ ParseChoiceStretched
    \/ ChooseAmong
    \/ RandomPercentage
    \/ ChooseAmongOnce
    \/ WrapChoicePositionExtremes
    \/ ShrinkPositionByChild
    \/ MovePositionBySpacing
    \/ GenerateMultiple
    \/ ParseSpacing
    \/ ParseChoiceFinal

ProbeSpec == ProbeInit /\ [][ProbeNext]_vars


(***************************************************************************)
(* What the properties below speak of.                                     *)
(***************************************************************************)
\* The rectangle c lies within the rectangle r.
Inside(c, r) ==
    /\ r.left <= c.left
    /\ c.right <= r.right
    /\ r.bottom <= c.bottom
    /\ c.top <= r.top

\* The extent of a position along the axis of a direction.
Extent(position, direction) ==
    IF directionSizing(direction) = "width"
    THEN position.right - position.left
    ELSE position.top - position.bottom

Area(position) == (position.right - position.left) * (position.top - position.bottom)

\* The size of a child along the axis of a direction.
ChildExtent(child, direction) ==
    IF directionSizing(direction) = "width" THEN child.width ELSE child.height

RECURSIVE SumExtents(_, _, _)
SumExtents(children, direction, j) ==
    IF j > Len(children) THEN 0
    ELSE ChildExtent(children[j], direction) + SumExtents(children, direction, j + 1)

\* The activations of mode generators now on the stack.
ModeFrames == {n \in 1..Len(stack) : stack[n].kind = "mode"}

\* The contents of the schema an activation is generating.
FrameContents(f) == possibilities[f.name].contents

\* A generateFull called right after a clear has returned normally.
FullRunReturned ==
    /\ last.op = "generateFull"
    /\ last.cleared
    /\ last.outcome = "returned"

(***************************************************************************)
(* C1: after clearGeneratedCommands and a generateFull(command) that       *)
(* returns normally, every command in the buffer has left <= right,        *)
(* bottom <= top, and its rectangle inside the rectangle of command, for   *)
(* every library, mode and direction.                                      *)
(***************************************************************************)
C1_Containment ==
    FullRunReturned =>
        \A j \in 1..Len(generatedCommands) :
            /\ generatedCommands[j].left <= generatedCommands[j].right
            /\ generatedCommands[j].bottom <= generatedCommands[j].top
            /\ Inside(generatedCommands[j], last.command)

(***************************************************************************)
(* C2: what parseChoice returns has left <= right, bottom <= top and all   *)
(* four edges within the position it was given, for each direction.        *)
(***************************************************************************)
C2_ParsedWithinHost ==
    \A n \in ModeFrames :
        \A j \in 1..Len(stack[n].children) :
            ~stack[n].hosts[j].final =>
                /\ stack[n].children[j].left <= stack[n].children[j].right
                /\ stack[n].children[j].bottom <= stack[n].children[j].top
                /\ Inside(stack[n].children[j], stack[n].hosts[j].position)

(***************************************************************************)
(* C3: the loops of Repeat and Random end, because every child they accept *)
(* strictly reduces the extent of the remaining position along the         *)
(* direction, whichever of the four directions it is.                      *)
(***************************************************************************)
C3_AcceptedChildReducesExtent ==
    [][\A n \in ModeFrames :
          (/\ n <= Len(stack')
           /\ stack[n].mode \in {"Repeat", "Random"}
           /\ stack'[n].kind = "mode"
           /\ Len(stack'[n].children) = Len(stack[n].children) + 1)
          => Extent(stack'[n].position, FrameContents(stack[n]).direction)
                < Extent(stack[n].position, FrameContents(stack[n]).direction)]_vars

(***************************************************************************)
(* C4: once Certain, Repeat or Random has packed children along a          *)
(* direction, the extent of the remaining position along it has gone down  *)
(* by at least the sum of their extents, and its area has not grown.       *)
(***************************************************************************)
C4_PackingMonotone ==
    \A n \in ModeFrames :
        stack[n].mode \in {"Certain", "Repeat", "Random"} =>
            LET direction == FrameContents(stack[n]).direction
            IN  /\ Extent(stack[n].start, direction) - Extent(stack[n].position, direction)
                      >= SumExtents(stack[n].children, direction, 1)
                /\ Area(stack[n].position) <= Area(stack[n].start)


(***************************************************************************)
(* C6: the commands one generateFull call appends stand in the buffer in   *)
(* depth-first order: a child's commands come in the order of the list it  *)
(* was generated in, and those of a Random child's subtree stand together  *)
(* at the place of that child.                                             *)
(***************************************************************************)
\* The path p comes before q in the depth-first walk.
RECURSIVE PathBefore(_, _)
PathBefore(p, q) ==
    IF p = <<>> \/ q = <<>> THEN FALSE
    ELSE IF Head(p) # Head(q) THEN Head(p) < Head(q)
    ELSE PathBefore(Tail(p), Tail(q))

C6_DepthFirstOrder ==
    /\ Len(trail) = Len(generatedCommands)
    /\ \A a, b \in 1..Len(trail) :
          (a < b /\ trail[a].call = trail[b].call)
             => PathBefore(trail[a].path, trail[b].path)

\* Commands of a subtree stand between commands of the level above.
C6_Witness ==
    \E a, b, c \in 1..Len(trail) :
        /\ a < b /\ b < c
        /\ trail[a].call = trail[c].call
        /\ Len(trail[a].path) = 1
        /\ Len(trail[b].path) = 2
        /\ Len(trail[c].path) = 1

(***************************************************************************)
(* C7: generateFull appends a Known child to the buffer once and does not  *)
(* recurse into it; it does not append a Random child but calls itself     *)
(* with that child as the command; a child of any other type makes it      *)
(* throw the unknown-child-type error.  So every element of the buffer has *)
(* type Known.                                                             *)
(***************************************************************************)
AllKnown == \A j \in 1..Len(generatedCommands) : generatedCommands[j].type = "Known"

FullDispatch ==
    (~Idle /\ Top.kind = "full" /\ ~Top.waiting /\ Top.i <= Len(Top.children)) =>
        LET child == Top.children[Top.i]
            n == Len(stack)
        IN  CASE child.type = "Known" ->
                    /\ generatedCommands' = Append(generatedCommands, child)
                    /\ Len(stack') = n
                    /\ stack'[n] = [Top EXCEPT !.i = @ + 1]
              [] child.type = "Random" ->
                    /\ generatedCommands' = generatedCommands
                    /\ \/ last'.outcome = "threw" /\ stack' = <<>>
                       \/ /\ Len(stack') = n + 2
                          /\ stack'[n] = [Top EXCEPT !.i = @ + 1]
                          /\ stack'[n + 1].kind = "full"
                          /\ stack'[n + 1].command = child
                          /\ stack'[n + 2].kind = "mode"
                          /\ stack'[n + 2].name = child.title
                          /\ stack'[n + 2].start = PositionOf(child)
              [] OTHER ->
                    /\ generatedCommands' = generatedCommands
                    /\ stack' = <<>>
                    /\ last'.outcome = "threw"
                    /\ last'.err = ErrUnknownChildType

C8_ContentsByType ==
    \A n \in ModeFrames :
        \A j \in 1..Len(stack[n].children) :
            LET child == stack[n].children[j]
            IN  /\ child.type = "Known" => ~child.hasContents
                /\ child.type # "Known" => child.hasContents

(***************************************************************************)
(* C9: in every mode a Final child comes out as a Known choice with the    *)
(* width and height of its source schema and the four edges of the         *)
(* position it was parsed against, so that no Final choice reaches         *)
(* generateFull.                                                           *)
(***************************************************************************)
\* The listed children of the schema that a generated child may stem from.
Origins(f, child) ==
    {j \in 1..Len(FrameContents(f).children) :
        FrameContents(f).children[j].title = child.title}

C9_FinalAsKnown ==
    /\ \A n \in ModeFrames :
          \A j \in 1..Len(stack[n].children) :
              LET child == stack[n].children[j]
                  host == stack[n].hosts[j].position
              IN  \A o \in Origins(stack[n], child) :
                     LET choice == FrameContents(stack[n]).children[o]
                     IN  choice.type = "Final" =>
                            /\ child.type = "Known"
                            /\ child.width = possibilities[choice.source].width
                            /\ child.height = possibilities[choice.source].height
                            /\ PositionOf(child) = host
    /\ \A n \in 1..Len(stack) :
          stack[n].kind = "full" =>
              \A j \in 1..Len(stack[n].children) : stack[n].children[j].type # "Final"


(***************************************************************************)
(* C5: two runs of clearGeneratedCommands followed by generateFull, given  *)
(* the same library, the same command and the same values from the random  *)
(* function, append the same commands and draw the same number of values.  *)
(* The first run is one whose whole buffer onPlacement was given; the      *)
(* second is the latest call.                                              *)
(***************************************************************************)
\* One of two sequences of draws begins the other: they can stem from the
\* same sequence of values of the random function.
SameValues(d, e) ==
    \A j \in 1..Min(Len(d), Len(e)) : d[j] = e[j]

\* A generateFull called right after a clear and now over.
ClearedRunOver(call) ==
    /\ call.op = "generateFull"
    /\ call.cleared
    /\ call.outcome \in {"returned", "threw"}

\* The step that ends the latest call.
EndsCall == (last.outcome = "running" \/ last'.id # last.id) /\ ClearedRunOver(last')

ShrunkBy(before, after, child, direction, s) ==
    CASE direction = "top" -> after = [before EXCEPT !.bottom = child.top + s]
      [] direction = "right" -> after = [before EXCEPT !.left = child.right + s]
      [] direction = "bottom" -> after = [before EXCEPT !.top = child.bottom - s]
      [] direction = "left" -> after = [before EXCEPT !.right = child.left - s]

\* The working position once the j-th child of f was dealt with.
PositionAfter(f, j) ==
    IF j < Len(f.children) THEN f.hosts[j + 1].position ELSE f.position

CertainFrames == {n \in ModeFrames : stack[n].mode = "Certain"}

\* One choice per entry, in the order of the list.
CertainInOrder(f) ==
    /\ Len(f.children) <= Len(FrameContents(f).children)
    /\ \A j \in 1..Len(f.children) :
          /\ f.children[j].title = FrameContents(f).children[j].title
          /\ f.hosts[j].final = (FrameContents(f).children[j].type = "Final")
    /\ ModeDone(possibilities, f) => Len(f.children) = Len(FrameContents(f).children)

RepeatFrames == {n \in ModeFrames : stack[n].mode = "Repeat"}

\* The sizes the candidate examined next comes out of parsing with.
CandidateSize(f) ==
    LET choice == FrameContents(f).children[f.i]
    IN  IF choice.type = "Final"
        THEN [width |-> possibilities[choice.source].width,
              height |-> possibilities[choice.source].height]
        ELSE [width |-> ensureSizingOnChoice(choice, possibilities[choice.title], "width"),
              height |-> ensureSizingOnChoice(choice, possibilities[choice.title], "height")]

\* The frame repeats one Known child of positive width to the right with no
\* spacing, in a host high enough for it.
RepeatsOneChild(f) ==
    LET contents == FrameContents(f)
    IN  /\ Len(contents.children) = 1
        /\ contents.children[1].type = "Known"
        /\ contents.direction = "right"
        /\ contents.spacing = SpacingNumber(0)
        /\ CandidateSize(f).width > 0
        /\ CandidateSize(f).height <= f.start.top - f.start.bottom
        /\ f.start.left <= f.start.right

C11_RepeatCycles ==
    \A n \in RepeatFrames :
        LET f == stack[n]
            contents == FrameContents(f)
            count == Len(contents.children)
        IN  /\ \A j \in 1..Len(f.children) :
                  /\ f.children[j].title = contents.children[((j - 1) % count) + 1].title
                  /\ positionIsNotEmpty(f.hosts[j].position, contents.direction)
                  /\ choiceFitsPosition(f.children[j], f.hosts[j].position)
                  /\ ShrunkBy(f.hosts[j].position, PositionAfter(f, j), f.children[j],
                              contents.direction, contents.spacing.n)
            /\ f.i = (Len(f.children) % count) + 1
            /\ f.done => ~choiceFitsPosition(CandidateSize(f), f.position)
            /\ (RepeatsOneChild(f) /\ ModeDone(possibilities, f))
                  => Len(f.children) =
                        Floor(f.start.right - f.start.left, CandidateSize(f).width)

\* A host of width 25 has taken two children of width 10 and refused the third.
C11_Witness ==
    \E n \in RepeatFrames :
        /\ RepeatsOneChild(stack[n])
        /\ stack[n].start.right - stack[n].start.left = 25
        /\ CandidateSize(stack[n]).width = 10
        /\ stack[n].done
        /\ Len(stack[n].children) = 2

\* A list of two children was gone through twice.
RepeatWrapped ==
    \E n \in RepeatFrames :
        /\ Len(FrameContents(stack[n]).children) = 2
        /\ Len(stack[n].children) = 4

(***************************************************************************)
(* C12: with contents.limit set, generateRandom returns none exactly when  *)
(* the children it accumulated exceeded the limit, and else the list it    *)
(* accumulated, of at most limit children; when it returns none, generate  *)
(* returns none to its caller and generateFull appends no command for that *)
(* branch.                                                                 *)
(***************************************************************************)
LimitedFrames ==
    {n \in ModeFrames : stack[n].mode = "Random" /\ FrameContents(stack[n]).limit # 0}

\* generateRandom gives none, or a list of at most limit children.
LimitKept ==
    \A n \in LimitedFrames :
        LET f == stack[n]
            limit == FrameContents(f).limit
        IN  /\ f.undef <=> Len(f.children) > limit
            /\ ~f.undef => Len(f.children) <= limit
            /\ f.undef => f.done

\* What the caller of generate holds of a list once generate has returned.
ListReceived(caller, result, children, none) ==
    CASE caller.kind = "full" ->
            /\ ~caller.waiting
            /\ caller.children = IF none THEN <<>> ELSE children
      [] caller.kind = "mode" ->
            /\ caller.resumed
            /\ IF none THEN caller.pending[1].contents = None
               ELSE caller.pending[1].contents[1].children = children
      [] OTHER ->
            IF none THEN result = None ELSE result[1].children = children

\* The return of a limited generateRandom, and the generateFull it returns
\* none to.
LimitReturn ==
    /\ (~Idle /\ Len(stack) \in LimitedFrames /\ ModeDone(possibilities, Top)) =>
          /\ generatedCommands' = generatedCommands
          /\ Len(stack') = Len(stack) - 1
          /\ ListReceived(IF Len(stack) = 1 THEN [kind |-> "user"]
                          ELSE stack'[Len(stack) - 1],
                          last'.result, Top.children,
                          Top.undef \/ Top.children = <<>>)
    /\ (~Idle /\ Top.kind = "full" /\ ~Top.waiting /\ Top.children = <<>>) =>
          /\ generatedCommands' = generatedCommands
          /\ stack' = Below

C12_RandomLimit == []LimitKept /\ [][LimitReturn]_vars

\* A branch of generateFull got none from a generateRandom that went over
\* its limit, while the same list in a narrower position gave exactly
\* limit children.
C12_Witness ==
    /\ ~Idle
    /\ Top.kind = "full"
    /\ ~Top.waiting
    /\ Top.children = <<>>
    /\ Top.command.title = "sub"
    /\ Top.command.hasContents
    /\ IsSome(Top.command.contents)
    /\ Len(Top.command.contents[1].children) = FrameContents([name |-> "sub"]).limit
    /\ generatedCommands = <<>>

(***************************************************************************)
(* C13: Multiple gives one choice per listed entry, in the order of the    *)
(* list and without any fit check; entry k (from 0) is parsed against a    *)
(* copy of the starting position moved along the direction by the sum of   *)
(* the k spacings drawn before it, so by k times the spacing when it is a  *)
(* number (left + 5k, right + 5k for spacing 5 and direction right); the   *)
(* working position is only moved, so its width and height never change.   *)
(***************************************************************************)
MultipleFrames == {n \in ModeFrames : stack[n].mode = "Multiple"}

\* The position moved by s along a direction.
TranslatedBy(position, direction, s) ==
    CASE direction = "top" -> [position EXCEPT !.top = @ + s, !.bottom = @ + s]
      [] direction = "right" -> [position EXCEPT !.left = @ + s, !.right = @ + s]
      [] direction = "bottom" -> [position EXCEPT !.top = @ - s, !.bottom = @ - s]
      [] direction = "left" -> [position EXCEPT !.left = @ - s, !.right = @ - s]
      [] OTHER -> position

\* The values a spacing may come out as.
SpacingValues(spacing) ==
    CASE spacing.kind = "number" -> {spacing.n}
      [] spacing.kind = "array" -> spacing.min..spacing.max
      [] OTHER -> {}

SameSize(p, q) ==
    /\ p.right - p.left = q.right - q.left
    /\ p.top - p.bottom = q.top - q.bottom

C13_MultipleTranslates ==
    \A n \in MultipleFrames :
        LET f == stack[n]
            contents == FrameContents(f)
        IN  /\ Len(f.children) <= Len(contents.children)
            /\ ModeDone(possibilities, f) => Len(f.children) = Len(contents.children)
            /\ SameSize(f.position, f.start)
            /\ \A j \in 1..Len(f.children) :
                  /\ f.children[j].title = contents.children[j].title
                  /\ SameSize(f.hosts[j].position, f.start)
                  /\ j = 1 => f.hosts[j].position = f.start
                  /\ \E sp \in SpacingValues(contents.spacing) :
                        PositionAfter(f, j) =
                            TranslatedBy(f.hosts[j].position, contents.direction, sp)
                  /\ contents.spacing.kind = "number" =>
                        f.hosts[j].position =
                            TranslatedBy(f.start, contents.direction,
                                         (j - 1) * contents.spacing.n)

\* Three entries fanned to the right by a spacing of 5: the third was parsed
\* against the starting position moved by 10.
C13_Witness ==
    \E n \in MultipleFrames :
        /\ FrameContents(stack[n]).direction = "right"
        /\ FrameContents(stack[n]).spacing = SpacingNumber(5)
        /\ ModeDone(possibilities, stack[n])
        /\ Len(stack[n].children) = 3
        /\ stack[n].hosts[3].position.left = stack[n].start.left + 10
        /\ stack[n].children[3].left = stack[n].start.left + 10
        /\ stack[n].position.right = stack[n].start.right + 15

\* An entry wider than its host was given all the same, after a spacing
\* that was drawn.
MultipleUnfitting ==
    \E n \in MultipleFrames :
        /\ FrameContents(stack[n]).spacing.kind = "array"
        /\ Len(stack[n].children) = 2
        /\ stack[n].hosts[2].position.left = stack[n].start.left + 2
        /\ ~choiceFitsPosition(stack[n].children[2], stack[n].hosts[2].position)

(***************************************************************************)
(* C14: when the schema of the parsed child has contents.snap = e, the     *)
(* direction lies on the other axis and the child is not stretched on the  *)
(* axis of e, the parsed choice has its e edge on the e edge of the        *)
(* position and its opposite edge the child's height (e top or bottom) or  *)
(* width (e left or right) inward from it.                                 *)
(***************************************************************************)
\* The input has a snap across the direction and no stretch along the snap.
SnapsAcross(in) ==
    /\ in.snap \in directionNames
    /\ directionSizing(in.snap) # directionSizing(in.direction)
    /\ ~in.stretch[directionSizing(in.snap)]

C14_SnapAligns ==
    (probe.op = "parseChoice" /\ probe.done /\ SnapsAcross(probe.input)) =>
        LET out == probe.output
            e == probe.input.snap
            size == IF directionSizing(e) = "width" THEN probe.input.width
                    ELSE probe.input.height
        IN  /\ out[e] = probe.input.position[e]
            /\ out[directionOpposites(e)] =
                  IF e \in {"top", "right"} THEN out[e] - size ELSE out[e] + size

\* A child of height 30 snapped to the bottom of a position from 0 to 100,
\* in a row going right.
C14_Witness ==
    /\ probe.op = "parseChoice"
    /\ probe.done
    /\ probe.input.snap = "bottom"
    /\ probe.input.direction = "right"
    /\ probe.input.stretch = NoStretch
    /\ probe.input.height = 30
    /\ probe.input.position = Position(100, 100, 0, 0)
    /\ probe.output.bottom = 0
    /\ probe.output.top = 30

(***************************************************************************)
(* C15: for a list of two or more items whose percents are non-negative    *)
(* and add up to at most 100, of the 100 goals 1..100 exactly percent_i    *)
(* make chooseAmong give item i and the other 100 - sum make it give       *)
(* nothing (40 and 60 for the pool 40, 60); and the goal                   *)
(* floor(100 * r) + 1 lies in 1..100 for every r in [0, 1).                *)
(***************************************************************************)
RECURSIVE SumPercents(_, _)
SumPercents(percents, i) ==
    IF i > Len(percents) THEN 0 ELSE percents[i] + SumPercents(percents, i + 1)

C15_ChooseAmongCounts ==
    /\ (probe.op = "chooseAmong" /\ probe.done) =>
          /\ \A i \in 1..Len(probe.input) : probe.output.counts[i] = probe.input[i]
          /\ probe.output.counts[0] = 100 - SumPercents(probe.input, 1)
    /\ (probe.op = "randomPercentage" /\ probe.done) => probe.output \in 1..100

\* The pool 40, 60 has been through the 100 goals.
C15_Witness ==
    /\ probe.op = "chooseAmong"
    /\ probe.done
    /\ probe.input = <<40, 60>>
    /\ probe.output.goal = 101
    /\ probe.output.counts[1] = 40
    /\ probe.output.counts[2] = 60

(***************************************************************************)
(* C16: wrapChoicePositionExtremes gives none for a missing or empty list  *)
(* of children; for every other list, of one child or more, it gives a box *)
(* whose top and right are the greatest and whose bottom and left are the  *)
(* least of the children's edges, whose width is right - left and height   *)
(* top - bottom, and whose children are the list as given; for a list of   *)
(* one child the box has that child's rectangle.                           *)
(***************************************************************************)
\* The greatest (least) value of an edge among the children.
Greatest(children, edge) ==
    CHOOSE v \in {children[j][edge] : j \in 1..Len(children)} :
        \A j \in 1..Len(children) : children[j][edge] <= v

Least(children, edge) ==
    CHOOSE v \in {children[j][edge] : j \in 1..Len(children)} :
        \A j \in 1..Len(children) : v <= children[j][edge]

C16_WrapExtremes ==
    (probe.op = "wrapChoicePositionExtremes" /\ probe.done) =>
        IF ~IsSome(probe.input) \/ Len(probe.input[1]) = 0
        THEN probe.output = None
        ELSE /\ IsSome(probe.output)
             /\ LET box == probe.output[1]
                    children == probe.input[1]
                IN  /\ box.top = Greatest(children, "top")
                    /\ box.right = Greatest(children, "right")
                    /\ box.bottom = Least(children, "bottom")
                    /\ box.left = Least(children, "left")
                    /\ box.sized
                    /\ box.width = box.right - box.left
                    /\ box.height = box.top - box.bottom
                    /\ box.children = children
                    /\ Len(children) = 1 => PositionOf(box) = PositionOf(children[1])

(***************************************************************************)
(* C17: a reference to a title that is no key of the library ends the      *)
(* generation in progress with an error and gives no choice: the name      *)
(* generate or generateFull starts from, the title of a child parseChoice  *)
(* comes to, and the title of a candidate chooseAmongPosition examines.    *)
(***************************************************************************)
\* No call that started from an unknown name went on, and no choice was
\* parsed for a title the library does not hold.
UnknownNeverParsed ==
    /\ (last.op # "none" /\ ~HasPossibility(last.lib, last.command.title)) =>
          /\ last.outcome = "threw"
          /\ last.err = ErrNoPossibility
          /\ last.result = None
          /\ Idle
    /\ \A n \in ModeFrames :
          /\ HasPossibility(possibilities, stack[n].name)
          /\ \A j \in 1..Len(stack[n].children) :
                ~stack[n].hosts[j].final =>
                    HasPossibility(possibilities, stack[n].children[j].title)

\* The next iteration of the frame's loop comes to a title the library does
\* not hold.
ReachesUnknown(f) ==
    LET children == FrameContents(f).children
    IN  /\ ~ModeDone(possibilities, f)
        /\ ~f.resumed
        /\ Len(f.children) < MaxChildren
        /\ CASE f.mode = "Random" ->
                    \E j \in 1..Len(children) : ~HasPossibility(possibilities, children[j].title)
              [] f.mode = "Multiple" -> ~HasPossibility(possibilities, children[f.i].title)
              [] OTHER -> /\ children[f.i].type # "Final"
                          /\ ~HasPossibility(possibilities, children[f.i].title)

UnknownAborts ==
    (~Idle /\ Top.kind = "mode" /\ ReachesUnknown(Top)) =>
        /\ stack' = <<>>
        /\ last'.outcome = "threw"
        /\ last'.err # NoError
        /\ last'.result = None
        /\ generatedCommands' = generatedCommands

C17_UnknownTitleFails == []UnknownNeverParsed /\ [][UnknownAborts]_vars

\* A generation that started from a known name has ended in an error at a
\* listed child whose title the library does not hold.
C17_Witness ==
    /\ Idle
    /\ last.op = "generateFull"
    /\ last.outcome = "threw"
    /\ last.err = ErrTypeError
    /\ HasPossibility(last.lib, last.command.title)
    /\ \E j \in 1..Len(last.lib[last.command.title].contents.children) :
          ~HasPossibility(last.lib, last.lib[last.command.title].contents.children[j].title)

(***************************************************************************)
(* C18: onPlacement is called by runGeneratedCommands alone, once per call *)
(* and with the buffer as it then is; no call of generate or generateFull, *)
(* whether it returns or ends in an error, calls onPlacement.              *)
(***************************************************************************)
PlacementStep ==
    /\ placed' # placed =>
          /\ Idle
          /\ Len(placed') = Len(placed) + 1
          /\ SubSeq(placed', 1, Len(placed)) = placed
          /\ placed'[Len(placed')].commands = generatedCommands
          /\ UNCHANGED <<possibilities, generatedCommands, stack, trail, last, calls>>
    /\ (~Idle \/ stack' # <<>> \/ calls' # calls \/ last' # last) => placed' = placed
    /\ RunGeneratedCommands => placed' # placed

C20_LibraryReadOnly ==
    [][(~Idle \/ calls' # calls) => possibilities' = possibilities]_vars

(***************************************************************************)
(* C19: the buffer is empty after construction and changes in two ways     *)
(* only: generateFull appends at its end, the buffer before the call being *)
(* a prefix of the buffer after it also when the call ends in an error,    *)
(* and clearGeneratedCommands empties it; generate, runGeneratedCommands   *)
(* and setPossibilities leave it as it is.  The commands are compared by   *)
(* what they hold, arguments included.                                     *)
(***************************************************************************)
\* The commands of the buffer with the arguments they now hold.
CommandValues(lib, cmds) == [j \in 1..Len(cmds) |-> Detached(lib, cmds[j])]

IsPrefix(a, b) == Len(a) <= Len(b) /\ SubSeq(b, 1, Len(a)) = a

BufferFrame ==
    LET before == CommandValues(possibilities, generatedCommands)
        after == CommandValues(possibilities', generatedCommands')
    IN  after # before =>
            \/ /\ ~Idle
               /\ last.op = "generateFull"
               /\ IsPrefix(before, after)
            \/ /\ Idle
               /\ after = <<>>
               /\ UNCHANGED <<possibilities, placed, stack, last, calls>>

C19_BufferFrame == (generatedCommands = <<>>) /\ [][BufferFrame]_vars

(***************************************************************************)
(* C21: in a library whose schemas name one another, or themselves,        *)
(* through children of type Random, every level of the recursion works on  *)
(* a strictly smaller region, so that generate and generateFull return     *)
(* after finitely many recursive calls in each mode: an activation of      *)
(* generate nested in an activation of generate for the same schema, and   *)
(* an activation of generateFull nested in one for the same title, has a   *)
(* region of strictly smaller area.                                        *)
(***************************************************************************)
\* The schema an activation on the stack is for, and the region it is given.
ActivationName(f) == IF f.kind = "mode" THEN f.name ELSE f.command.title

ActivationRegion(f) == IF f.kind = "mode" THEN f.start ELSE PositionOf(f.command)

C21_RecursionShrinks ==
    \A n, m \in 1..Len(stack) :
        (/\ n < m
         /\ stack[n].kind = stack[m].kind
         /\ ActivationName(stack[n]) = ActivationName(stack[m]))
        => Area(ActivationRegion(stack[m])) < Area(ActivationRegion(stack[n]))

(***************************************************************************)
(* C22: chooseAmong gives none for an empty list; for a list of one it     *)
(* gives that element whatever its percent, without drawing; for a longer  *)
(* list it draws one g in 1..100 and gives the first item, in the order of *)
(* the list, at which the running sum of the percents is >= g, and none    *)
(* when the percents add up to less than g.                                *)
(***************************************************************************)
\* The sum of the first i percents.
RECURSIVE RunningSum(_, _)
RunningSum(percents, i) == IF i = 0 THEN 0 ELSE percents[i] + RunningSum(percents, i - 1)

\* The items at which the running sum has reached g.
Reaching(percents, g) == {i \in 1..Len(percents) : RunningSum(percents, i) >= g}

C22_ChooseAmong ==
    (probe.op = "chooseAmongOnce" /\ probe.done) =>
        LET percents == probe.input.percents
            g == Floor(100 * probe.input.k, RandDen) + 1
            index == probe.output.index
        IN  CASE Len(percents) = 0 -> index = 0 /\ probe.output.draws = 0
              [] Len(percents) = 1 -> index = 1 /\ probe.output.draws = 0
              [] OTHER ->
                    /\ probe.output.draws = 1
                    /\ g \in 1..100
                    /\ IF RunningSum(percents, Len(percents)) < g THEN index = 0
                       ELSE /\ index \in Reaching(percents, g)
                            /\ \A i \in Reaching(percents, g) : index <= i

\* A list of one whose percent is 30 gave its element on a draw that would
\* have been above 30.
C22_Witness ==
    /\ probe.op = "chooseAmongOnce"
    /\ probe.done
    /\ probe.input.percents = <<30>>
    /\ probe.input.k = 99
    /\ probe.output.index = 1
    /\ probe.output.draws = 0

\* A longer list gave nothing: its percents add up to less than the goal.
ChoseNone ==
    /\ probe.op = "chooseAmongOnce"
    /\ probe.done
    /\ probe.input.percents = <<10, 20, 30>>
    /\ probe.input.k = 60
    /\ probe.output.index = 0

(***************************************************************************)
(* C23: chooseAmongPosition gives only an item of the list whose schema    *)
(* has width <= right - left and height <= top - bottom of the position,   *)
(* and none when no item of the list fits; so the loop of Random ends as   *)
(* soon as no listed child's schema fits the remaining position.           *)
(***************************************************************************)
RandomFrames == {n \in ModeFrames : stack[n].mode = "Random"}

\* The schema a listed child names fits the position.
SchemaFits(choice, position) ==
    /\ possibilities[choice.title].width <= position.right - position.left
    /\ possibilities[choice.title].height <= position.top - position.bottom

\* Every child Random has taken stems from a listed child whose schema
\* fitted the position it was chosen for.
ChosenFit ==
    \A n \in RandomFrames :
        \A j \in 1..Len(stack[n].children) :
            \E o \in Origins(stack[n], stack[n].children[j]) :
                SchemaFits(FrameContents(stack[n]).children[o], stack[n].hosts[j].position)

\* No listed child's schema fits what is left of the frame's position.
NoneFits(f) ==
    \A o \in 1..Len(FrameContents(f).children) :
        /\ HasPossibility(possibilities, FrameContents(f).children[o].title)
        /\ ~SchemaFits(FrameContents(f).children[o], f.position)

\* With nothing that fits, the iteration ends the loop and takes no child.
StopsWhenNoneFits ==
    (/\ ~Idle
     /\ Top.kind = "mode"
     /\ Top.mode = "Random"
     /\ ~ModeDone(possibilities, Top)
     /\ NoneFits(Top))
    => /\ Len(stack') = Len(stack)
       /\ stack'[Len(stack)] = [Top EXCEPT !.done = TRUE]
       /\ last'.draws = last.draws
       /\ last'.outcome = "running"

C23_OnlyFitting == []ChosenFit /\ [][StopsWhenNoneFits]_vars

\* Random has taken children and ended with room left along its direction
\* that no listed child's schema fits.
C23_Witness ==
    \E n \in RandomFrames :
        /\ stack[n].done
        /\ Len(stack[n].children) >= 2
        /\ positionIsNotEmpty(stack[n].position, FrameContents(stack[n]).direction)
        /\ NoneFits(stack[n])

(***************************************************************************)
(* C24: when choice.stretch.width is set the parsed choice has the left    *)
(* and right of the position, width = right - left and arguments.width =   *)
(* width, whatever the direction, the child's own sizing and the snap;     *)
(* the same holds of stretch.height with top, bottom, height and           *)
(* arguments.height; a child with a stretch that states no arguments gets  *)
(* an arguments map.                                                       *)
(***************************************************************************)
C24_Stretch ==
    (probe.op = "parseChoiceStretch" /\ probe.done) =>
        LET out == probe.output
            position == probe.input.position
        IN  /\ out.arguments.kind = "own"
            /\ probe.input.stretch.width =>
                  /\ out.left = position.left
                  /\ out.right = position.right
                  /\ out.width = out.right - out.left
                  /\ out.arguments.map.width = Some(out.width)
            /\ probe.input.stretch.height =>
                  /\ out.top = position.top
                  /\ out.bottom = position.bottom
                  /\ out.height = out.top - out.bottom
                  /\ out.arguments.map.height = Some(out.height)

\* A child 5 wide by its own sizing, with no arguments, whose schema snaps
\* right, was stretched over a position from 5 to 25 in a row going left.
C24_Witness ==
    /\ probe.op = "parseChoiceStretch"
    /\ probe.done
    /\ probe.input.stretch = Stretch(TRUE, FALSE)
    /\ probe.input.snap = "right"
    /\ probe.input.direction = "left"
    /\ probe.input.sizing # NoSizing
    /\ probe.input.arguments = ChildArgumentsNone
    /\ probe.input.position = Position(16, 25, 0, 5)
    /\ probe.output.left = 5
    /\ probe.output.right = 25
    /\ probe.output.width = 20
    /\ probe.output.arguments = ArgumentsOwn(ArgumentsMap(Some(20), None, ""))

(***************************************************************************)
(* C25: a weighted draw that selects nothing, the percents adding up to    *)
(* less than the value drawn, never ends a generation in an error, be it   *)
(* among the children of Random, among the weighted arguments of a child,  *)
(* or among the options of a weighted spacing: in a library that is        *)
(* regular but for the sums of its weighted lists, every call of generate  *)
(* and generateFull from a name the library holds goes on or returns.      *)
(***************************************************************************)
\* Every schema has contents of a known mode with a direction, and lists
\* only children of type Known or Random whose titles the library holds.
Regular(lib) ==
    \A t \in DOMAIN lib :
        /\ lib[t].hasContents
        /\ lib[t].contents.mode \in Modes
        /\ lib[t].contents.spacing.kind # "other"
        /\ \A j \in 1..Len(lib[t].contents.children) :
              /\ lib[t].contents.direction \in directionNames
              /\ lib[t].contents.children[j].type \in {"Known", "Random"}
              /\ HasPossibility(lib, lib[t].contents.children[j].title)

\* Random has ended on a draw that selected none of the children that fit.
RandomDrewNone ==
    \E n \in RandomFrames :
        /\ stack[n].done
        /\ ~NoneFits(stack[n])
        /\ Len(stack[n].children) >= 1

C25_NoneRecovered ==
    (/\ last.op # "none"
     /\ Regular(last.lib)
     /\ HasPossibility(last.lib, last.command.title))
    => last.outcome # "threw"

(***************************************************************************)
(* C26: a direction that is none of top, right, bottom, left, a missing    *)
(* one included, ends the generation in an error wherever a position is    *)
(* shrunk or moved along it: in shrinkPositionByChild, in                  *)
(* movePositionBySpacing and in an iteration of Multiple; none of them     *)
(* goes on with the position as it was.                                    *)
(***************************************************************************)
DirectionSteps == {"shrinkPositionByChild", "movePositionBySpacing", "generateMultiple"}

C26_UnknownDirectionFatal ==
    (/\ probe.op \in DirectionSteps
     /\ probe.done
     /\ probe.input.direction \notin directionNames)
    => probe.output.err = ErrUnknownDirection

(***************************************************************************)
(* C27: for every value r in [0, 1) of the random function a spacing       *)
(* [min, max] of integers min <= max resolves to an integer of min..max,   *)
(* both ends being reached; a spacing {min, max, units: u} with u > 0      *)
(* resolves to u times an integer of floor(min / u)..floor(max / u), so to *)
(* a multiple of u; a number n resolves to n.                              *)
(***************************************************************************)
C27_SpacingRange ==
    (probe.op = "parseSpacing" /\ probe.done) =>
        LET spacing == probe.input.spacing
            val == probe.output.val
        IN  CASE spacing.kind = "number" -> val = spacing.n
              [] spacing.kind = "array" -> val \in spacing.min..spacing.max
              [] spacing.kind = "object" /\ spacing.units > 0 ->
                    \E q \in Floor(spacing.min, spacing.units)..Floor(spacing.max, spacing.units) :
                        val = spacing.units * q
              [] OTHER -> TRUE

\* The spacing [0, 5] came out as 0, and as 5.
ReachedMin ==
    probe.op = "parseSpacing" /\ probe.done /\ probe.input.spacing = SpacingArray(0, 5)
        /\ probe.output.val = 0

ReachedMax ==
    probe.op = "parseSpacing" /\ probe.done /\ probe.input.spacing = SpacingArray(0, 5)
        /\ probe.output.val = 5

(***************************************************************************)
(* C28: resolving a spacing that is none of a number, {min, max, units?},  *)
(* [min, max] and a weighted list ends in an error and gives no value; and *)
(* parsing a Final child that has no source, or whose source the library   *)
(* does not hold, ends in an error and gives no choice.                    *)
(***************************************************************************)
C28_MalformedFatal ==
    /\ (probe.op = "parseSpacing" /\ probe.done /\ probe.input.spacing.kind = "other")
          => probe.output.err # NoError
    /\ (/\ probe.op = "parseChoiceFinal"
        /\ probe.done
        /\ ~HasPossibility(LibFinal("Certain", "deco"), probe.input.source))
          => probe.output.err # NoError

\* As C28, for the Final child alone.
FinalWithoutSourceFails ==
    (/\ probe.op = "parseChoiceFinal"
     /\ probe.done)
    => (probe.output.err # NoError
          <=> ~HasPossibility(LibFinal("Certain", "deco"), probe.input.source))

(***************************************************************************)
(* C29: generate and generateFull leave the command or position they are   *)
(* given as it is and pack into a copy of their own: the generate called   *)
(* for a child that is not Known in Certain or Repeat leaves the working   *)
(* position of its caller unchanged, generateFull recursing into a Random  *)
(* child leaves that child's edges unchanged, and in Multiple parsing a    *)
(* child does not alter the working position, which changes by the move    *)
(* along the direction alone.                                              *)
(***************************************************************************)
\* The command generateFull was called with is still what the caller gave,
\* and every activation of generate started on the edges it was given.
CallerCommandKept ==
    /\ (~Idle /\ last.op = "generateFull") =>
          /\ stack[1].kind = "full"
          /\ stack[1].command = last.command
    /\ (~Idle /\ last.op = "generate") => stack[1].start = PositionOf(last.command)
    /\ \A n \in 2..Len(stack) :
          (stack[n].kind = "mode" /\ stack[n - 1].kind = "full")
             => stack[n].start = PositionOf(stack[n - 1].command)

\* What a step leaves alone in the activations that stay on the stack.
Isolation ==
    /\ \A m \in 1..Len(stack) :
          (m <= Len(stack') /\ (m < Len(stack) \/ Len(stack') > Len(stack))) =>
              IF stack[m].kind = "mode"
              THEN /\ stack'[m].kind = "mode"
                   /\ stack'[m].position = stack[m].position
                   /\ stack'[m].children = stack[m].children
              ELSE /\ stack'[m].kind = "full"
                   /\ stack'[m].command = stack[m].command
                   /\ ~stack[m].waiting => stack'[m].children = stack[m].children
    /\ (/\ ~Idle
        /\ Top.kind = "mode"
        /\ Len(stack') = Len(stack) + 1)
       => stack'[Len(stack')].start = Top.position
    /\ (/\ ~Idle
        /\ Top.kind = "full"
        /\ Len(stack') = Len(stack) + 2)
       => /\ stack'[Len(stack) + 1].command = Top.children[Top.i]
          /\ stack'[Len(stack)].children = Top.children
    /\ (/\ ~Idle
        /\ Top.kind = "mode"
        /\ Top.mode = "Multiple"
        /\ Len(stack') = Len(stack)
        /\ stack'[Len(stack)] # Top)
       => \E sp \in SpacingValues(FrameContents(Top).spacing) :
              stack'[Len(stack)].position =
                  TranslatedBy(Top.position, FrameContents(Top).direction, sp)

C29_PositionIsolation == []CallerCommandKept /\ [][Isolation]_vars

\* A generate called for a first child of type Random has returned the
\* children it packed, and its caller's working position is as it was.
C29_Witness ==
    \E n \in ModeFrames :
        /\ stack[n].mode \in {"Certain", "Repeat"}
        /\ stack[n].resumed
        /\ stack[n].children = <<>>
        /\ IsSome(stack[n].pending[1].contents)
        /\ Len(stack[n].pending[1].contents[1].children) >= 2
        /\ stack[n].position = stack[n].start

(***************************************************************************)
(* C30: in the list Repeat or Random gives, with a spacing >= 0 and        *)
(* children of positive sizes, consecutive children do not overlap along   *)
(* the packing axis, in each of the four directions: child k + 1 starts at *)
(* the far edge of child k plus the spacing drawn after child k (left =    *)
(* right + s going right, right = left - s going left, bottom = top + s    *)
(* going top, top = bottom - s going bottom); and every child lies inside  *)
(* the position the mode started with.                                     *)
(***************************************************************************)
PackingFrames == {n \in ModeFrames : stack[n].mode \in {"Repeat", "Random"}}

\* The spacings that may lie between two packed children.
PackSpacings(spacing) ==
    IF spacing.kind = "weighted"
    THEN {spacing.options[o].value.n : o \in 1..Len(spacing.options)}
    ELSE SpacingValues(spacing)

\* The child b starts at the far edge of the child a plus s.
Follows(a, b, direction, s) ==
    CASE direction = "top" -> b.bottom = a.top + s
      [] direction = "right" -> b.left = a.right + s
      [] direction = "bottom" -> b.top = a.bottom - s
      [] direction = "left" -> b.right = a.left - s

\* Each packed child starts where the one before it ended, plus a spacing.
SiblingsFollow ==
    \A n \in PackingFrames :
        \A j \in 2..Len(stack[n].children) :
            \E sp \in PackSpacings(FrameContents(stack[n]).spacing) :
                /\ sp >= 0
                /\ Follows(stack[n].children[j - 1], stack[n].children[j],
                           FrameContents(stack[n]).direction, sp)

\* Each packed child lies inside the position the mode started with.
SiblingsInside ==
    \A n \in PackingFrames :
        \A j \in 1..Len(stack[n].children) :
            Inside(stack[n].children[j], stack[n].start)

C30_SiblingsApart == SiblingsFollow /\ SiblingsInside

====
